---- MODULE Spec2Model ----
(***************************************************************************)
(* Month-to-date revenue forecasting engine of api_server.py:              *)
(* compute_dynamic_month_projection, backtest_projection_mape_with_        *)
(* assumptions and growth_significance, with the helpers they call.        *)
(*                                                                         *)
(* Numbers.  A Python float is modelled as a decimal fixed-point number     *)
(* with Digits digits after the point and a magnitude of MaxFloat at most, *)
(* or an infinity, or NaN; operations round to the nearest such number and *)
(* overflow to an infinity.                                                *)
(*                                                                         *)
(* Dates.  A datetime.date is the number of days since 2024-01-01 (a       *)
(* Monday), negative for December 2023.                                    *)
(***************************************************************************)
EXTENDS Integers, Sequences, FiniteSets, TLC

VARIABLES
    daily_totals,   \* the caller's frame: a sequence of rows (date, total)
    as_of_date,     \* the as-of date of the call
    assumptions,    \* the assumptions mapping of the call
    alt_totals,     \* a second frame, derived from daily_totals by the caller
    alt_kind,       \* how alt_totals was derived
    pc,             \* position of the caller
    projection,     \* what compute_dynamic_month_projection(daily_totals) gave
    alt_projection, \* what compute_dynamic_month_projection(alt_totals) gave
    backtest,       \* what backtest_projection_mape_with_assumptions gave
    significance,   \* what growth_significance gave
    ratio_in,       \* the arguments of a direct _safe_ratio call
    ratio_out,      \* its return value
    alt_backtest,   \* what the backtester gave for alt_totals
    transactions,   \* the rows of table transactions
    imports,        \* the rows of table imports
    shopify_imports,    \* the rows of table shopify_imports
    shopify_line_daily, \* the rows of table shopify_line_daily
    next_id,        \* the next AUTOINCREMENT id of each table
    clock,          \* datetime.now(), in whole seconds
    store_call,     \* the last call on the tables: arguments and return value
    inserted_by,    \* history: the import whose call inserted each transaction
    dash_request,   \* a /dashboard request: parameters, and what each
                    \* sub-endpoint does when called
    dash_response,  \* what the /dashboard handler gave for it
    _jwks_cache,    \* the module-level JWKS cache of backend/main.py
    now,            \* int(time.time())
    jwks_call       \* the last verify_clerk_token call: token, fetch, outcome

forecast_vars ==
    <<daily_totals, as_of_date, assumptions, alt_totals, alt_kind, pc, projection,
      alt_projection, backtest, significance, ratio_in, ratio_out,
      alt_backtest>>

store_vars ==
    <<transactions, imports, shopify_imports, shopify_line_daily, next_id, clock,
      store_call, inserted_by>>

dash_vars ==
    <<dash_request, dash_response>>

jwks_vars ==
    <<_jwks_cache, now, jwks_call>>

vars ==
    <<forecast_vars, store_vars, dash_vars, jwks_vars>>

(***************************************************************************)
(* Bounds of the model.                                                    *)
(***************************************************************************)
\* daily values of the generated series range over 0..MaxValue
MaxValue == 2
\* decimal digits a float keeps after the point
Digits == 3
\* the largest finite float (sys.float_info.max), in units
MaxFloat == 10000

(***************************************************************************)
(* Constants of the program.                                               *)
(***************************************************************************)
\* the trailing window of the weekday baseline, in days
HistWindowDays == 84
\* the fewest rows of that window the baseline accepts
MinHistRows == 14

(***************************************************************************)
(* Floats.  A float is <<v>>, the number v / Prec, or NaN.  Every          *)
(* operation rounds its exact result to the nearest multiple of 1 / Prec,  *)
(* as a float operation rounds to the nearest float, and a result beyond   *)
(* MaxFloat becomes the infinity of its sign: <<InfV>> or <<-InfV>>.       *)
(***************************************************************************)
Prec ==
    10 ^ Digits

NaN ==
    <<>>

IsNaN(x) ==
    x = <<>>

InfV ==
    MaxFloat * Prec + 1

Inf ==
    <<InfV>>

\* math.isinf
IsInf(x) ==
    x # <<>> /\ (x[1] >= InfV \/ x[1] <= -InfV)

\* math.isfinite
IsFinite(x) ==
    x # <<>> /\ x[1] < InfV /\ x[1] > -InfV

\* the float of an exact result of v / Prec
Overflowed(v) ==
    IF v >= InfV THEN InfV ELSE IF v <= -InfV THEN -InfV ELSE v

Abs(n) ==
    IF n < 0 THEN -n ELSE n

Sign(n) ==
    IF n < 0 THEN -1 ELSE 1

\* a / b to the nearest integer, for a >= 0 and b > 0
RoundDiv(a, b) ==
    (a \div b) + (IF 2 * (a % b) >= b THEN 1 ELSE 0)

\* float(n) of an integer n
Int2F(n) ==
    <<n * Prec>>

\* the float literal n / d
Dec(n, d) ==
    <<Sign(n) * RoundDiv(Abs(n) * Prec, d)>>

Zero ==
    Int2F(0)

One ==
    Int2F(1)

\* inf + -inf is NaN
FAdd(x, y) ==
    IF IsNaN(x) \/ IsNaN(y) THEN NaN
    ELSE IF IsInf(x) THEN (IF IsInf(y) /\ y # x THEN NaN ELSE x)
    ELSE IF IsInf(y) THEN y
    ELSE <<Overflowed(x[1] + y[1])>>

FNeg(x) ==
    IF IsNaN(x) THEN NaN ELSE <<-x[1]>>

FSub(x, y) ==
    FAdd(x, FNeg(y))

\* a * b / Prec to the nearest integer, for a, b >= 0, without forming a * b
MulScaled(a, b) ==
    LET aq == a \div Prec
        ar == a % Prec
        bq == b \div Prec
        br == b % Prec
    IN  aq * bq * Prec + aq * br + ar * bq + RoundDiv(ar * br, Prec)

\* inf * 0 is NaN
FMul(x, y) ==
    IF IsNaN(x) \/ IsNaN(y) THEN NaN
    ELSE IF IsInf(x) \/ IsInf(y)
    THEN (IF x[1] = 0 \/ y[1] = 0 THEN NaN ELSE <<Sign(x[1]) * Sign(y[1]) * InfV>>)
    ELSE IF Abs(x[1]) >= Prec /\ Abs(y[1]) \div Prec > MaxFloat \div (Abs(x[1]) \div Prec)
    THEN <<Sign(x[1]) * Sign(y[1]) * InfV>>
    ELSE <<Sign(x[1]) * Sign(y[1]) * Overflowed(MulScaled(Abs(x[1]), Abs(y[1])))>>

\* long division: k more decimal digits of q + r / b, then rounded
RECURSIVE DivDigits(_, _, _, _)
DivDigits(q, r, b, k) ==
    IF k = 0 THEN q + (IF 2 * r >= b THEN 1 ELSE 0)
    ELSE DivDigits(q * 10 + (r * 10) \div b, (r * 10) % b, b, k - 1)

\* x / y for a divisor that is not zero (a zero divisor raises: see the
\* callers); inf / inf is NaN
FDiv(x, y) ==
    IF IsNaN(x) \/ IsNaN(y) THEN NaN
    ELSE IF IsInf(x) THEN (IF IsInf(y) THEN NaN ELSE <<Sign(x[1]) * Sign(y[1]) * InfV>>)
    ELSE IF IsInf(y) THEN <<0>>
    ELSE IF Abs(x[1]) \div Abs(y[1]) > MaxFloat THEN <<Sign(x[1]) * Sign(y[1]) * InfV>>
    ELSE LET a == Abs(x[1])
             b == Abs(y[1])
         IN  <<Sign(x[1]) * Sign(y[1]) * Overflowed(DivDigits(a \div b, a % b, b, Digits))>>

\* the comparisons of floats: every comparison with NaN is false
FLt(x, y) ==
    /\ ~IsNaN(x)
    /\ ~IsNaN(y)
    /\ x[1] < y[1]

FLe(x, y) ==
    /\ ~IsNaN(x)
    /\ ~IsNaN(y)
    /\ x[1] <= y[1]

FEqZero(x) ==
    ~IsNaN(x) /\ x[1] = 0

FAbs(x) ==
    IF IsNaN(x) THEN NaN ELSE <<Abs(x[1])>>

\* Python's max(a, b) and min(a, b): the first argument unless the second beats it
PyMax(a, b) ==
    IF FLt(a, b) THEN b ELSE a

PyMin(a, b) ==
    IF FLt(b, a) THEN b ELSE a

\* the largest r in lo..hi with r * r <= n
RECURSIVE ISqrtBetween(_, _, _)
ISqrtBetween(n, lo, hi) ==
    IF lo >= hi THEN lo
    ELSE LET mid == (lo + hi + 1) \div 2
         IN  IF mid * mid <= n THEN ISqrtBetween(n, mid, hi)
             ELSE ISqrtBetween(n, lo, mid - 1)

\* the least r with r * r >= n, for n >= 0
ISqrtUp(n) ==
    LET r == ISqrtBetween(n, 0, IF n < 46340 THEN n ELSE 46340)
    IN  IF r * r = n THEN r ELSE r + 1

\* math.sqrt and ** 0.5 of a float x >= 0, rounded up: like the float, the
\* root is 0 exactly when x is 0.  sqrt(v / Prec) = sqrt(v * Prec) / Prec; a
\* large v is scaled by 100 first and the root by 10 after
FSqrt(x) ==
    IF IsNaN(x) THEN NaN
    ELSE IF IsInf(x) THEN x
    ELSE IF x[1] < 2000000000 \div Prec THEN <<ISqrtUp(x[1] * Prec)>>
    ELSE <<10 * ISqrtUp(((x[1] + 99) \div 100) * Prec)>>

(***************************************************************************)
(* The calendar: datetime.date, timedelta and calendar.monthrange.         *)
(***************************************************************************)
\* first day of 2023-12, 2024-01, ..., 2024-07
MonthStartDays ==
    <<-31, 0, 31, 60, 91, 121, 152, 182>>

MonthIndex(d) ==
    CHOOSE i \in 1..(Len(MonthStartDays) - 1) :
        MonthStartDays[i] <= d /\ d < MonthStartDays[i + 1]

\* date(d.year, d.month, 1)
MonthStartOf(d) ==
    MonthStartDays[MonthIndex(d)]

\* calendar.monthrange(d.year, d.month)[1]
monthrange(d) ==
    MonthStartDays[MonthIndex(d) + 1] - MonthStartDays[MonthIndex(d)]

\* d.day
DayOfMonth(d) ==
    d - MonthStartOf(d) + 1

\* d.weekday(): Monday is 0
weekday(d) ==
    (d + 35) % 7

\* the date of day `day` of 2024's month `month`
Date(month, day) ==
    MonthStartDays[month + 1] + day - 1

(***************************************************************************)
(* Frames.  A row of daily_totals is [date, parsable, total, numeric]:     *)
(* `date` is the day its date value denotes when pd.to_datetime can parse  *)
(* it (parsable), `total` its revenue when that is a number (numeric); a   *)
(* row that is not numeric holds text in its total column.                 *)
(***************************************************************************)
Row(d, t) ==
    [date |-> d, parsable |-> TRUE, total |-> t, numeric |-> TRUE]

\* a row whose date pd.to_datetime(errors="coerce") turns into NaT
NaTRow(t) ==
    [date |-> 0, parsable |-> FALSE, total |-> t, numeric |-> TRUE]

\* a row whose total is text
TextRow(d) ==
    [date |-> d, parsable |-> TRUE, total |-> 0, numeric |-> FALSE]

DateBefore(r1, r2) ==
    r1.date < r2.date

\* the normalization that keeps the rows with an unparsable date, each at the
\* day its date field holds
normalize_KeepNaT(frame) ==
    SortSeq(frame, DateBefore)

\* ts = daily_totals.copy(); to_datetime(errors="coerce"); dropna; sort_values
normalize(frame) ==
    SortSeq(SelectSeq(frame, LAMBDA r : r.parsable), DateBefore)

\* ts[(ts.date >= lo) & (ts.date <= hi)]
Between(ts, lo, hi) ==
    SelectSeq(ts, LAMBDA r : lo <= r.date /\ r.date <= hi)

\* whether a frame's total column holds text, on which sum() and mean() raise
\* (a TypeError for a column of numbers and text; the model names every such
\* failure TypeError)
HasText(ts) ==
    \E i \in 1..Len(ts) : ~ts[i].numeric

\* the sum of the totals of rows lo..hi, by halves
RECURSIVE SumRange(_, _, _)
SumRange(ts, lo, hi) ==
    IF lo > hi THEN 0
    ELSE IF lo = hi THEN ts[lo].total
    ELSE LET mid == (lo + hi) \div 2
         IN  SumRange(ts, lo, mid) + SumRange(ts, mid + 1, hi)

\* float(ts["total"].sum())
TotalSum(ts) ==
    Int2F(SumRange(ts, 1, Len(ts)))

\* float(ts["total"].mean()): NaN for an empty frame
TotalMean(ts) ==
    IF Len(ts) = 0 THEN NaN ELSE FDiv(Int2F(SumRange(ts, 1, Len(ts))), Int2F(Len(ts)))

\* a sequence with every element evaluated
Materialized(xs) ==
    xs \o <<>>

\* the sum of the floats lo..hi of a sequence, by halves
RECURSIVE FSumRange(_, _, _)
FSumRange(xs, lo, hi) ==
    IF lo > hi THEN Zero
    ELSE IF lo = hi THEN xs[lo]
    ELSE LET mid == (lo + hi) \div 2
         IN  FAdd(FSumRange(xs, lo, mid), FSumRange(xs, mid + 1, hi))

\* the sum of a sequence of floats
FSum(xs) ==
    FSumRange(xs, 1, Len(xs))

\* the sum of the squared deviations of a sequence of floats from a mean
SumSquaredDeviations(xs, mean) ==
    FSum(Materialized(
             [i \in 1..Len(xs) |-> FMul(FSub(xs[i], mean), FSub(xs[i], mean))]))

\* Series.std(ddof=1) of a sequence of at least two floats
SampleVar(xs) ==
    FDiv(SumSquaredDeviations(xs, FDiv(FSum(xs), Int2F(Len(xs)))),
         Int2F(Len(xs) - 1))

SampleStd(xs) ==
    FSqrt(SampleVar(xs))

(***************************************************************************)
(* Results.  A call returns None, returns a result, or raises.             *)
(***************************************************************************)
\* an empty mapping in the place of None
EmptyResult ==
    [kind |-> "Result"]

None ==
    [kind |-> "None"]

Raise(exc) ==
    [kind |-> "Raise", error |-> exc]

\* the value of a result variable before the call
Pending ==
    [kind |-> "Pending"]

(***************************************************************************)
(* Assumptions.  The mapping after .get(name, default): the ten fields.    *)
(***************************************************************************)
DefaultAssumptions ==
    [recent_weight |-> Dec(6, 10), mom_weight |-> Dec(4, 10),
     weekday_strength |-> One, manual_multiplier |-> One,
     promo_lift_pct |-> Zero, content_lift_pct |-> Zero, instock_rate |-> One,
     growth_floor |-> Dec(5, 10), growth_ceiling |-> Dec(18, 10),
     volatility_multiplier |-> One]

_safe_ratio(numerator, denominator, default) ==
    IF FEqZero(denominator) THEN default ELSE FDiv(numerator, denominator)

_assumption_effective_multiplier(a) ==
    FMul(FMul(FMul(a.manual_multiplier, FAdd(One, a.promo_lift_pct)),
              FAdd(One, a.content_lift_pct)),
         a.instock_rate)

\* the clamp without its floor
ClampGrowth_CeilingOnly(growth_floor, growth_ceiling, growth_factor) ==
    PyMin(growth_ceiling, growth_factor)

\* the clamp without its ceiling
ClampGrowth_FloorOnly(growth_floor, growth_ceiling, growth_factor) ==
    PyMax(growth_floor, growth_factor)

\* max(growth_floor, min(growth_ceiling, growth_factor))
ClampGrowth(growth_floor, growth_ceiling, growth_factor) ==
    PyMax(growth_floor, PyMin(growth_ceiling, growth_factor))

\* the recent signal entering with any row in prior14
GrowthFactors_AnyPrior(n_prior14, n_prev_month, recent_growth, mom_growth, a) ==
    LET recent == IF n_prior14 > 0
                  THEN <<<<recent_growth, PyMax(a.recent_weight, Zero)>>>>
                  ELSE <<>>
        mom    == IF n_prev_month > 0
                  THEN <<<<mom_growth, PyMax(a.mom_weight, Zero)>>>>
                  ELSE <<>>
        both   == recent \o mom
    IN  IF both = <<>> THEN <<<<One, One>>>> ELSE both

\* the factors list: the (value, weight) pairs of the qualifying signals
GrowthFactors(n_prior14, n_prev_month, recent_growth, mom_growth, a) ==
    LET recent == IF n_prior14 >= 7
                  THEN <<<<recent_growth, PyMax(a.recent_weight, Zero)>>>>
                  ELSE <<>>
        mom    == IF n_prev_month > 0
                  THEN <<<<mom_growth, PyMax(a.mom_weight, Zero)>>>>
                  ELSE <<>>
        both   == recent \o mom
    IN  IF both = <<>> THEN <<<<One, One>>>> ELSE both

\* sum(w for _, w in factors)
WeightSum(factors) ==
    FSum([i \in 1..Len(factors) |-> factors[i][2]])

\* the sum of the values, their weights forgotten
WeightedSum_Unweighted(factors) ==
    FSum([i \in 1..Len(factors) |-> factors[i][1]])

\* sum(v * w for v, w in factors)
WeightedSum(factors) ==
    FSum([i \in 1..Len(factors) |-> FMul(factors[i][1], factors[i][2])])

\* weekday_avg: the dict from each weekday that occurs in hist_recent to the
\* mean total of its rows; avg[wd + 1] is the value of key wd
WeekdayAvg(hist_recent) ==
    [present |-> {weekday(hist_recent[i].date) : i \in 1..Len(hist_recent)},
     avg     |-> Materialized(
                     [k \in 1..7 |->
                         TotalMean(SelectSeq(hist_recent,
                                             LAMBDA r : weekday(r.date) = k - 1))])]

\* the lookup with 0.0 for a missing key
DictGet_ZeroDefault(dict, key, default) ==
    IF key \in dict.present THEN dict.avg[key + 1] ELSE Zero

\* weekday_avg.get(wd, overall_avg)
DictGet(dict, key, default) ==
    IF key \in dict.present THEN dict.avg[key + 1] ELSE default

\* the prediction from the weekday's own average, weekday_strength ignored
Predict_Undamped(d, weekday_avg, overall_avg, weekday_strength, growth_factor) ==
    PyMax(Zero, FMul(DictGet(weekday_avg, weekday(d), overall_avg), growth_factor))

\* the prediction of one future date
Predict(d, weekday_avg, overall_avg, weekday_strength, growth_factor) ==
    LET baseline0 == DictGet(weekday_avg, weekday(d), overall_avg)
        baseline  == FAdd(overall_avg,
                          FMul(weekday_strength, FSub(baseline0, overall_avg)))
    IN  PyMax(Zero, FMul(baseline, growth_factor))

\* whether two rows of a frame carry the same date
HasDuplicateDates(ts) ==
    \E i, j \in 1..Len(ts) : i < j /\ ts[i].date = ts[j].date

\* the reindexed totals without fillna(0.0): NaN on a date with no row
ActualOn_NoFill(current, d) ==
    IF \E i \in 1..Len(current) : current[i].date = d
    THEN Int2F(current[CHOOSE i \in 1..Len(current) : current[i].date = d].total)
    ELSE NaN

\* current.set_index("date")["total"].reindex(full_month_dates).fillna(0.0)
ActualOn(current, d) ==
    IF \E i \in 1..Len(current) : current[i].date = d
    THEN Int2F(current[CHOOSE i \in 1..Len(current) : current[i].date = d].total)
    ELSE Zero

\* ts = ts[ts.date <= as_of_date]
UpTo(ts, as_of) ==
    SelectSeq(ts, LAMBDA r : r.date <= as_of)

\* the history with the month's first day in it
HistBefore_Inclusive(ts, month_start) ==
    SelectSeq(ts, LAMBDA r : r.date <= month_start)

\* hist = ts[ts.date < month_start]
HistBefore(ts, month_start) ==
    SelectSeq(ts, LAMBDA r : r.date < month_start)

\* ci_low = max(0.0, projected_total - 1.96 * forecast_std)
CiLow(projected_total, forecast_std) ==
    PyMax(Zero, FSub(projected_total, FMul(Dec(196, 100), forecast_std)))

\* the upper bound with the margin subtracted
CiHigh_Subtracted(projected_total, forecast_std) ==
    FSub(projected_total, FMul(Dec(196, 100), forecast_std))

\* ci_high = projected_total + 1.96 * forecast_std
CiHigh(projected_total, forecast_std) ==
    FAdd(projected_total, FMul(Dec(196, 100), forecast_std))

(***************************************************************************)
(* compute_dynamic_month_projection, in the order of its statements.  Each *)
(* operator below is a stretch of the function's body: it takes the locals *)
(* computed so far and ends in the function's return value.                *)
(***************************************************************************)
\* the dict returned: ci_low, ci_high, chart_df and the fields
ProjectionDict(current, mtd_actual, projected_total, growth_factor, forecast_std, predicted, as_of) ==
    IF HasDuplicateDates(current) THEN Raise("ValueError")
    ELSE
    [kind |-> "Result",
     mtd_actual |-> mtd_actual,
     projected_total |-> projected_total,
     growth_factor |-> growth_factor,
     ci_low |-> CiLow(projected_total, forecast_std),
     ci_high |-> CiHigh(projected_total, forecast_std),
     chart_df |-> [k \in 1..monthrange(as_of) |->
                     [date |-> MonthStartOf(as_of) + k - 1,
                      actual_daily |-> ActualOn(current, MonthStartOf(as_of) + k - 1),
                      forecast_daily |->
                          IF MonthStartOf(as_of) + k - 1 > as_of
                          THEN predicted[MonthStartOf(as_of) + k - 1 - as_of]
                          ELSE Zero]],
     elapsed_days |-> (as_of - MonthStartOf(as_of)) + 1,
     month_days |-> monthrange(as_of),
     month_start |-> MonthStartOf(as_of),
     month_end |-> MonthStartOf(as_of) + monthrange(as_of) - 1]

\* forecast_std = (max(len(future_df), 1) ** 0.5) * residual_std
\*                    * max(volatility_multiplier, 0.1)
ForecastStd(n_future, residual_std, volatility_multiplier) ==
    FMul(FMul(FSqrt(Int2F(IF n_future > 1 THEN n_future ELSE 1)), residual_std),
         PyMax(volatility_multiplier, Dec(1, 10)))

\* remaining_projection, projected_total and forecast_std
ProjectionTotals(current, mtd_actual, growth_factor, predicted, residual_std, as_of, a) ==
    ProjectionDict(current, mtd_actual,
                   FAdd(mtd_actual,
                        IF Len(predicted) = 0 THEN Zero ELSE FSum(predicted)),
                   growth_factor,
                   ForecastStd(Len(predicted), residual_std, a.volatility_multiplier),
                   predicted, as_of)

\* the predictions starting on as_of itself
FuturePredictions_FromAsOf(as_of, weekday_avg, overall_avg, weekday_strength, growth_factor) ==
    Materialized(
        [k \in 1..(MonthStartOf(as_of) + monthrange(as_of) - as_of) |->
            Predict(as_of + k - 1, weekday_avg, overall_avg, weekday_strength,
                    growth_factor)])

\* future_df["predicted_sales"]: one prediction for each date after as_of
\* up to month_end
FuturePredictions(as_of, weekday_avg, overall_avg, weekday_strength, growth_factor) ==
    Materialized(
        [k \in 1..(MonthStartOf(as_of) + monthrange(as_of) - 1 - as_of) |->
            Predict(as_of + k, weekday_avg, overall_avg, weekday_strength,
                    growth_factor)])

\* residual_std: the deviation of hist_recent's totals from their weekday
\* baseline
ResidualStd(hist_recent, weekday_avg, overall_avg) ==
    IF Len(hist_recent) > 1
    THEN SampleStd(Materialized(
                       [i \in 1..Len(hist_recent) |->
                           FSub(Int2F(hist_recent[i].total),
                                DictGet(weekday_avg, weekday(hist_recent[i].date),
                                        overall_avg))]))
    ELSE Zero

\* from the factors list on: the weighted mean, the multiplier, the clamp
ProjectFromFactors(current, hist_recent, weekday_avg, overall_avg, factors, as_of, a) ==
    IF FEqZero(WeightSum(factors)) THEN Raise("ZeroDivisionError")
    ELSE ProjectionTotals(
             current, TotalSum(current),
             ClampGrowth(a.growth_floor, a.growth_ceiling,
                         FMul(FDiv(WeightedSum(factors), WeightSum(factors)),
                              _assumption_effective_multiplier(a))),
             FuturePredictions(
                 as_of, weekday_avg, overall_avg, a.weekday_strength,
                 ClampGrowth(a.growth_floor, a.growth_ceiling,
                             FMul(FDiv(WeightedSum(factors), WeightSum(factors)),
                                  _assumption_effective_multiplier(a)))),
             ResidualStd(hist_recent, weekday_avg, overall_avg),
             as_of, a)

\* from the recent14, prior14 and prev_month_mtd selections on: recent_growth,
\* mom_growth and the factors list
ProjectFromSignals(current, hist_recent, recent14, prior14, prev_month_mtd, as_of, a) ==
    IF (Len(prior14) > 0 /\ (HasText(recent14) \/ HasText(prior14)))
       \/ HasText(prev_month_mtd)
    THEN Raise("TypeError")
    ELSE ProjectFromFactors(
             current, hist_recent, WeekdayAvg(hist_recent), TotalMean(hist_recent),
             GrowthFactors(
                 Len(prior14), Len(prev_month_mtd),
                 IF Len(prior14) > 0
                 THEN _safe_ratio(TotalMean(recent14), TotalMean(prior14), One)
                 ELSE One,
                 IF Len(prev_month_mtd) > 0
                 THEN _safe_ratio(TotalSum(current), TotalSum(prev_month_mtd), One)
                 ELSE One,
                 a),
             as_of, a)

\* prev_month_mtd: the rows of the previous month up to its day
\* min(elapsed_days, length of the previous month)
PrevMonthMtd(ts, as_of) ==
    LET month_start         == MonthStartOf(as_of)
        elapsed_days        == (as_of - month_start) + 1
        prev_month_end      == month_start - 1
        prev_month_start    == MonthStartOf(prev_month_end)
        prev_days           == monthrange(prev_month_end)
        prev_month_asof_day == IF elapsed_days < prev_days THEN elapsed_days
                               ELSE prev_days
    IN  Between(ts, prev_month_start, prev_month_start + prev_month_asof_day - 1)

\* from hist_recent on: the weekday means and the three selections
ProjectFromHistory(ts, current, hist_recent, as_of, a) ==
    IF HasText(hist_recent) THEN Raise("TypeError")
    ELSE ProjectFromSignals(current, hist_recent,
                            Between(ts, as_of - 13, as_of),
                            Between(ts, as_of - 27, as_of - 14),
                            PrevMonthMtd(ts, as_of),
                            as_of, a)

\* the last 84 days of hist however few their rows
HistRecent_NoFallback(hist, hist_window) ==
    hist_window

\* hist_recent: the last 84 days of hist, or all of hist when those hold fewer
\* than 14 rows
HistRecent(hist, hist_window) ==
    IF Len(hist_window) < MinHistRows THEN hist ELSE hist_window

\* from current and hist on
ProjectFromWindows(ts, current, hist, as_of, a) ==
    IF Len(current) = 0 THEN None
    ELSE IF HasText(current) THEN Raise("TypeError")
    ELSE IF Len(hist) = 0 THEN None
    ELSE ProjectFromHistory(
             ts, current,
             HistRecent(hist,
                        SelectSeq(hist, LAMBDA r :
                                      r.date >= MonthStartOf(as_of) - HistWindowDays)),
             as_of, a)

\* from the normalized ts on
ProjectFromRows(ts, as_of, a) ==
    IF Len(ts) = 0 THEN None
    ELSE ProjectFromWindows(ts,
                            Between(ts, MonthStartOf(as_of), as_of),
                            HistBefore(ts, MonthStartOf(as_of)),
                            as_of, a)

compute_dynamic_month_projection(frame, as_of, a) ==
    IF Len(frame) = 0 THEN None
    ELSE ProjectFromRows(UpTo(normalize(frame), as_of), as_of, a)

(***************************************************************************)
(* backtest_projection_mape_with_assumptions                               *)
(***************************************************************************)
\* sorted(ts["date"].dt.to_period("M").unique()), as indexes of MonthStartDays
MonthsOf(ts) ==
    SelectSeq([i \in 1..(Len(MonthStartDays) - 1) |-> i],
              LAMBDA m : \E k \in 1..Len(ts) : MonthIndex(ts[k].date) = m)

\* the row appended for a month with a prediction and a positive actual
BacktestRow(m, pred, actual) ==
    IF FLe(actual, Zero) THEN [kind |-> "skip"]
    ELSE [kind |-> "row",
          month |-> m,
          predicted |-> pred.projected_total,
          actual |-> actual,
          ape |-> FDiv(FAbs(FSub(pred.projected_total, actual)), actual)]

\* the loop body after the prediction: "skip" for continue, else a row or a
\* raise
BacktestPrediction(m, pred, month_rows) ==
    IF pred.kind = "Raise" THEN pred
    ELSE IF pred.kind = "None" THEN [kind |-> "skip"]
    ELSE IF HasText(month_rows) THEN Raise("TypeError")
    ELSE BacktestRow(m, pred, TotalSum(month_rows))

\* one pass of the loop with as_of on day as_of_day counted from the first of
\* the month, beyond the end of a shorter month
BacktestMonth_NoClamp(ts, m, as_of_day, current_month_start, a) ==
    LET month_start == MonthStartDays[m]
        days        == MonthStartDays[m + 1] - MonthStartDays[m]
        month_end   == month_start + days - 1
        as_of       == month_start + as_of_day - 1
    IN
    IF as_of >= current_month_start THEN [kind |-> "skip"]
    ELSE BacktestPrediction(
             m,
             compute_dynamic_month_projection(
                 SelectSeq(ts, LAMBDA r : r.date <= as_of), as_of, a),
             Between(ts, month_start, month_end))

\* one pass of the loop over months
BacktestMonth(ts, m, as_of_day, current_month_start, a) ==
    LET month_start == MonthStartDays[m]
        days        == MonthStartDays[m + 1] - MonthStartDays[m]
        month_end   == month_start + days - 1
        cutoff_day  == IF as_of_day < days THEN as_of_day ELSE days
        as_of       == month_start + cutoff_day - 1
    IN
    IF as_of >= current_month_start THEN [kind |-> "skip"]
    ELSE BacktestPrediction(
             m,
             compute_dynamic_month_projection(
                 SelectSeq(ts, LAMBDA r : r.date <= as_of), as_of, a),
             Between(ts, month_start, month_end))

\* the return value, from the outcome of every pass of the loop
BacktestSummary(outcomes, rows) ==
    IF \E i \in 1..Len(outcomes) : outcomes[i].kind = "Raise"
    THEN outcomes[CHOOSE i \in 1..Len(outcomes) :
                     /\ outcomes[i].kind = "Raise"
                     /\ \A j \in 1..(i - 1) : outcomes[j].kind # "Raise"]
    ELSE IF Len(rows) = 0 THEN None
    ELSE [kind |-> "Result",
          mape |-> FDiv(FSum([i \in 1..Len(rows) |-> rows[i].ape]),
                        Int2F(Len(rows))),
          count |-> Len(rows),
          details |-> rows]

BacktestLoop(outcomes) ==
    BacktestSummary(outcomes, SelectSeq(outcomes, LAMBDA o : o.kind = "row"))

BacktestMonths(ts, months, as_of_day, current_month_start, a) ==
    BacktestLoop(Materialized(
                     [i \in 1..Len(months) |->
                         BacktestMonth(ts, months[i], as_of_day,
                                       current_month_start, a)]))

BacktestFromRows(ts, as_of_day, current_month_start, a) ==
    IF Len(ts) = 0 THEN None
    ELSE BacktestMonths(ts, MonthsOf(ts), as_of_day, current_month_start, a)

backtest_projection_mape_with_assumptions(frame, as_of_day, current_month_start, a) ==
    IF Len(frame) = 0 THEN None
    ELSE BacktestFromRows(
             SelectSeq(normalize(frame), LAMBDA r : r.date < current_month_start),
             as_of_day, current_month_start, a)

(***************************************************************************)
(* growth_significance                                                     *)
(***************************************************************************)
\* 10000 * Phi(k / 10) for k = 0..40, to the nearest unit
NormalTable ==
    <<5000, 5398, 5793, 6179, 6554, 6915, 7257, 7580, 7881, 8159,
      8413, 8643, 8849, 9032, 9192, 9332, 9452, 9554, 9641, 9713,
      9772, 9821, 9861, 9893, 9918, 9938, 9953, 9965, 9974, 9981,
      9987, 9990, 9993, 9995, 9997, 9998, 9998, 9999, 9999, 10000, 10000>>

\* 0.5 * (1 + erf(x / sqrt(2))) for x >= 0, x rounded down to a tenth; from
\* x = 4 on the float is within 1e-4 of 1; math.erf of NaN is NaN
_normal_cdf(x) ==
    IF IsNaN(x) THEN NaN
    ELSE LET k == x[1] \div (Prec \div 10)
         IN  Dec(NormalTable[IF k < 40 THEN k + 1 ELSE 41], 10000)

\* the dict returned, from z
SignificanceDict(z, p_value, mean1, mean2) ==
    [kind |-> "Result",
     z |-> z,
     p_value |-> p_value,
     confidence |-> FSub(One, p_value),
     mean_current |-> mean1,
     mean_baseline |-> mean2]

SignificanceFromZ(z, mean1, mean2) ==
    SignificanceDict(z, FMul(Int2F(2), FSub(One, _normal_cdf(FAbs(z)))),
                     mean1, mean2)

\* z = 0 in the place of None for a standard error of 0
SignificanceFromMoments_ZeroZ(mean1, mean2, se) ==
    SignificanceFromZ(IF FEqZero(se) THEN Zero ELSE FDiv(FSub(mean1, mean2), se),
                      mean1, mean2)

\* from the two means and the standard error on
SignificanceFromMoments(mean1, mean2, se) ==
    IF FEqZero(se) THEN None
    ELSE SignificanceFromZ(FDiv(FSub(mean1, mean2), se), mean1, mean2)

\* se = sqrt(std1 ** 2 / n1 + std2 ** 2 / n2); ** 2 raises OverflowError where
\* the product overflows, which takes a deviation above the root of MaxFloat
StandardError(std1, n1, std2, n2) ==
    FSqrt(FAdd(FDiv(FMul(std1, std1), Int2F(n1)),
               FDiv(FMul(std2, std2), Int2F(n2))))

\* from the current and baseline selections on
SignificanceFromWindows(current, baseline, a) ==
    IF Len(current) < 2 \/ Len(baseline) < 2 THEN None
    ELSE IF HasText(current) \/ HasText(baseline) THEN Raise("TypeError")
    ELSE SignificanceFromMoments(
             FMul(TotalMean(current), _assumption_effective_multiplier(a)),
             TotalMean(baseline),
             StandardError(
                 SampleStd(Materialized(
                               [i \in 1..Len(current) |-> Int2F(current[i].total)])),
                 Len(current),
                 SampleStd(Materialized(
                               [i \in 1..Len(baseline) |-> Int2F(baseline[i].total)])),
                 Len(baseline)))

SignificanceFromRows(ts, as_of, a) ==
    SignificanceFromWindows(
        Between(ts, MonthStartOf(as_of), as_of),
        Between(ts, MonthStartOf(as_of) - HistWindowDays, MonthStartOf(as_of) - 1),
        a)

growth_significance(frame, as_of, a) ==
    IF Len(frame) = 0 THEN None
    ELSE SignificanceFromRows(normalize(frame), as_of, a)

(***************************************************************************)
(* The inputs of a call.                                                   *)
(***************************************************************************)
\* the total a generated series records on day d
ValueOn(pattern, v, d) ==
    CASE pattern = "flat"    -> v
      [] pattern = "weekday" -> (weekday(d) * v) % (MaxValue + 1)
      [] pattern = "growing" -> IF d < Date(4, 1) THEN 1 ELSE v
      [] pattern = "opening" -> IF d < Date(3, 25) THEN 0 ELSE v
      [] pattern = "refunds" -> IF d % 3 = 0 THEN -v ELSE d % 2

\* a row for each of the days, with the total the pattern gives the day
RowsOn(days, pattern, v) ==
    Materialized([i \in 1..Len(days) |-> Row(days[i], ValueOn(pattern, v, days[i]))])

\* one row per day from first to last, except the days from gap_lo to gap_hi
Series(first, last, gap_lo, gap_hi, pattern, v) ==
    RowsOn(SelectSeq([i \in 1..(last - first + 1) |-> first + i - 1],
                     LAMBDA d : d < gap_lo \/ d > gap_hi),
           pattern, v)

AsOfDates ==
    {Date(3, 31), Date(4, 15), Date(4, 20), Date(4, 30)}

FirstDays ==
    {Date(1, 1), Date(3, 17), Date(3, 31), Date(4, 1)}

\* <<gap_lo, gap_hi>>: the days without a row; the first gap removes nothing
NoGap ==
    <<Date(5, 1), Date(5, 1)>>

Gaps ==
    {NoGap,
     <<Date(1, 10), Date(3, 10)>>,
     <<Date(1, 10), Date(3, 25)>>,
     <<Date(3, 19), Date(4, 1)>>,
     <<Date(3, 22), Date(3, 28)>>,
     <<Date(4, 4), Date(4, 30)>>,
     <<Date(4, 1), Date(4, 30)>>}

\* <<pattern, v>>
Patterns ==
    {<<"flat", v>> : v \in 0..MaxValue}
        \cup {<<"weekday", MaxValue>>, <<"growing", MaxValue>>,
              <<"opening", MaxValue>>, <<"refunds", MaxValue>>}

With(a, field, x) ==
    [a EXCEPT ![field] = x]

AssumptionSets ==
    {DefaultAssumptions,
     With(With(DefaultAssumptions, "growth_floor", One), "growth_ceiling", One),
     With(With(DefaultAssumptions, "growth_floor", Int2F(2)), "growth_ceiling", One),
     With(With(DefaultAssumptions, "recent_weight", Zero), "mom_weight", Dec(-5, 10)),
     With(With(DefaultAssumptions, "manual_multiplier", Int2F(2)),
          "instock_rate", Dec(5, 10)),
     With(With(DefaultAssumptions, "promo_lift_pct", Dec(5, 10)),
          "weekday_strength", Zero),
     With(With(DefaultAssumptions, "volatility_multiplier", Zero),
          "weekday_strength", Int2F(-1)),
     With(With(With(DefaultAssumptions, "growth_floor", One), "growth_ceiling", One),
          "manual_multiplier", Int2F(3)),
     With(DefaultAssumptions, "volatility_multiplier", Int2F(MaxFloat)),
     With(With(With(DefaultAssumptions, "manual_multiplier", Int2F(MaxFloat)),
               "promo_lift_pct", One),
          "instock_rate", Zero),
     With(With(DefaultAssumptions, "recent_weight", Int2F(2)), "mom_weight", Dec(5, 10))}

\* the generated series, each ending on the last day of April
SeriesFrames ==
    {Series(first, Date(4, 30), gap[1], gap[2], p[1], p[2]) :
        first \in FirstDays, gap \in Gaps, p \in Patterns}

\* the scenario series: 30 consecutive days at 100 a day, from every first
\* day between the 10th of March and the 15th of April
ScenarioFrames ==
    {Series(first, first + 29, NoGap[1], NoGap[2], "flat", 100) :
        first \in Date(3, 10)..Date(4, 15)}

\* frames without a usable row, and a series that carries unparsable dates
DegenerateFrames ==
    {<<>>,
     <<NaTRow(1)>>,
     <<NaTRow(1), NaTRow(2)>>,
     <<NaTRow(2)>> \o Series(Date(3, 17), Date(4, 30), NoGap[1], NoGap[2], "flat", 1)
                   \o <<NaTRow(1)>>,
     <<NaTRow(2)>> \o Series(Date(4, 1), Date(4, 30), NoGap[1], NoGap[2], "flat", 1)}

Inputs ==
    {[frame |-> f, as_of |-> d, a |-> a] :
        f \in SeriesFrames, d \in AsOfDates, a \in AssumptionSets}
    \cup {[frame |-> f, as_of |-> Date(4, 15), a |-> DefaultAssumptions] :
            f \in ScenarioFrames}
    \cup {[frame |-> f, as_of |-> d, a |-> DefaultAssumptions] :
            f \in DegenerateFrames, d \in AsOfDates}

(***************************************************************************)
(* What a call leaves in the objects the caller passed.  Each function     *)
(* returns None on an empty frame before it touches anything, and works on *)
(* ts = daily_totals.copy() otherwise: the assignment to ts["date"] writes *)
(* the copy, and dropna, sort_values and the row selections build new      *)
(* frames.  assumptions = assumptions or {} binds a local name, and the    *)
(* mapping is only read with get.                                          *)
(***************************************************************************)
\* the projector splitting the caller's frame in place: the rows of the month
\* are taken out of it, and the history is what stays
FrameAfterProjection_HistoryOnly(frame, as_of) ==
    HistBefore(normalize(frame), MonthStartOf(as_of))

\* the caller's frame after compute_dynamic_month_projection(frame, as_of, _)
FrameAfterProjection(frame, as_of) ==
    frame

\* the backtester normalising the caller's frame instead of a copy of it
FrameAfterBacktest_InPlace(frame, current_month_start) ==
    HistBefore(normalize(frame), current_month_start)

\* the caller's frame after backtest_projection_mape_with_assumptions(frame, _,
\* current_month_start, _)
FrameAfterBacktest(frame, current_month_start) ==
    frame

\* the caller's frame after growth_significance(frame, as_of, _)
FrameAfterSignificance(frame, as_of) ==
    frame

\* the caller's mapping after a call of any of the three functions
AssumptionsAfterCall(a) ==
    a

(***************************************************************************)
(* The state outside the forecasting engine before anything has used it:   *)
(* the tables after init_api_tables on a new database, no /dashboard       *)
(* request, and the JWKS cache as the module creates it.                   *)
(***************************************************************************)
\* the tables of a new database
StoreEmpty ==
    /\ transactions = {}
    /\ imports = {}
    /\ shopify_imports = {}
    /\ shopify_line_daily = {}
    /\ next_id = [transactions |-> 1, imports |-> 1, shopify_imports |-> 1,
                  shopify_line_daily |-> 1]
    /\ clock = 0
    /\ store_call = [op |-> "none"]
    /\ inserted_by = <<>>

DashIdle ==
    /\ dash_request = [kind |-> "none"]
    /\ dash_response = Pending

\* _jwks_cache = {"expires_at": 0, "keys": []}
JwksEmpty ==
    /\ _jwks_cache = [expires_at |-> 0, keys |-> <<>>]
    /\ now = 0
    /\ jwks_call = [kind |-> "none"]

(***************************************************************************)
(* The caller: one call of each of the three functions on one input, with  *)
(* the arguments forecast_mtd gives them (as_of_day is the projection's    *)
(* elapsed_days, the day of the month of as_of_date).  The three functions *)
(* are called on every input: their return values for a frame do not       *)
(* depend on one another.                                                  *)
(***************************************************************************)
InitWith(inputs) ==
    /\ \E inp \in inputs :
          /\ daily_totals = inp.frame
          /\ as_of_date = inp.as_of
          /\ assumptions = inp.a
    /\ alt_totals = <<>>
    /\ alt_kind = "none"
    /\ pc = "start"
    /\ projection = Pending
    /\ alt_projection = Pending
    /\ backtest = Pending
    /\ significance = Pending
    /\ ratio_in = <<Zero, Zero>>
    /\ ratio_out = Zero
    /\ alt_backtest = Pending
    /\ StoreEmpty
    /\ DashIdle
    /\ JwksEmpty

Init ==
    InitWith(Inputs)

CallProjector ==
    /\ pc = "start"
    /\ projection' = compute_dynamic_month_projection(daily_totals, as_of_date,
                                                      assumptions)
    /\ daily_totals' = FrameAfterProjection(daily_totals, as_of_date)
    /\ assumptions' = AssumptionsAfterCall(assumptions)
    /\ pc' = "projected"
    /\ UNCHANGED <<as_of_date, alt_totals, alt_kind, alt_projection, backtest,
                   significance, ratio_in, ratio_out,
                   alt_backtest,
                   store_vars, dash_vars, jwks_vars>>

CallBacktest ==
    /\ pc = "projected"
    /\ backtest' = backtest_projection_mape_with_assumptions(
                       daily_totals, DayOfMonth(as_of_date),
                       MonthStartOf(as_of_date), assumptions)
    /\ daily_totals' = FrameAfterBacktest(daily_totals, MonthStartOf(as_of_date))
    /\ assumptions' = AssumptionsAfterCall(assumptions)
    /\ pc' = "backtested"
    /\ UNCHANGED <<as_of_date, alt_totals, alt_kind, projection, alt_projection,
                   significance, ratio_in, ratio_out,
                   alt_backtest,
                   store_vars, dash_vars, jwks_vars>>

CallSignificance ==
    /\ pc = "backtested"
    /\ significance' = growth_significance(daily_totals, as_of_date, assumptions)
    /\ daily_totals' = FrameAfterSignificance(daily_totals, as_of_date)
    /\ assumptions' = AssumptionsAfterCall(assumptions)
    /\ pc' = "tested"
    /\ UNCHANGED <<as_of_date, alt_totals, alt_kind, projection, alt_projection,
                   backtest, ratio_in, ratio_out,
                   alt_backtest,
                   store_vars, dash_vars, jwks_vars>>

Next ==
    \/ CallProjector
    \/ CallBacktest
    \/ CallSignificance

Spec ==
    Init /\ [][Next]_vars

(***************************************************************************)
(* The projector on a frame and then on the same frame again, as it is or  *)
(* with its rows reordered or with a row added.                            *)
(***************************************************************************)
\* the total of an added numeric row
AddedTotal ==
    MaxValue + 5

ReorderKinds ==
    {"reverse", "rotate"}

FutureRowKinds ==
    {"future_back", "future_front"}

NaTRowKinds ==
    {"nat_back", "nat_front"}

TextRowKinds ==
    {"text_current", "text_history", "text_future"}

\* the second call of two: the caller passes the frame of the first call again
RepeatKinds ==
    {"repeat"}

Perturbed(frame, kind, as_of) ==
    CASE kind = "repeat"       -> frame
      [] kind = "reverse"      -> [i \in 1..Len(frame) |-> frame[Len(frame) + 1 - i]]
      [] kind = "rotate"       -> Tail(frame) \o <<Head(frame)>>
      [] kind = "future_back"  -> frame \o <<Row(as_of + 1, AddedTotal)>>
      [] kind = "future_front" -> <<Row(as_of + 40, AddedTotal)>> \o frame
      [] kind = "nat_back"     -> frame \o <<NaTRow(AddedTotal)>>
      [] kind = "nat_front"    -> <<NaTRow(AddedTotal)>> \o frame
      [] kind = "text_current" -> frame \o <<TextRow(as_of)>>
      [] kind = "text_history" -> <<TextRow(MonthStartOf(as_of) - 1)>> \o frame
      [] kind = "text_future"  -> frame \o <<TextRow(as_of + 1)>>

\* a series with two rows on one day of its history
TwoRowsOnOneDay ==
    <<Row(Date(3, 20), 1)>>
        \o Series(Date(3, 17), Date(4, 30), NoGap[1], NoGap[2], "weekday", MaxValue)

AltFrames ==
    {Series(first, Date(4, 30), gap[1], gap[2], p[1], p[2]) :
        first \in {Date(1, 1), Date(3, 17), Date(3, 31)},
        gap \in {NoGap, <<Date(3, 22), Date(3, 28)>>, <<Date(4, 16), Date(4, 30)>>},
        p \in {<<"flat", 1>>, <<"weekday", MaxValue>>, <<"growing", MaxValue>>}}
    \cup {TwoRowsOnOneDay}

AltInputs ==
    {[frame |-> f, as_of |-> d, a |-> DefaultAssumptions] :
        f \in AltFrames, d \in {Date(4, 15), Date(4, 30)}}

InitAlt ==
    InitWith(AltInputs)

Perturb ==
    /\ pc = "projected"
    /\ \E kind \in RepeatKinds \cup ReorderKinds \cup FutureRowKinds
                        \cup NaTRowKinds \cup TextRowKinds :
          /\ alt_kind' = kind
          /\ alt_totals' = Perturbed(daily_totals, kind, as_of_date)
    /\ pc' = "perturbed"
    /\ UNCHANGED <<daily_totals, as_of_date, assumptions, projection,
                   alt_projection, backtest, significance, ratio_in, ratio_out,
                   alt_backtest,
                   store_vars, dash_vars, jwks_vars>>

CallProjectorAlt ==
    /\ pc = "perturbed"
    /\ alt_projection' = compute_dynamic_month_projection(alt_totals, as_of_date,
                                                          assumptions)
    /\ alt_totals' = FrameAfterProjection(alt_totals, as_of_date)
    /\ assumptions' = AssumptionsAfterCall(assumptions)
    /\ pc' = "compared"
    /\ UNCHANGED <<daily_totals, as_of_date, alt_kind, projection, backtest,
                   significance, ratio_in, ratio_out,
                   alt_backtest,
                   store_vars, dash_vars, jwks_vars>>

NextAlt ==
    \/ CallProjector
    \/ Perturb
    \/ CallProjectorAlt

SpecAlt ==
    InitAlt /\ [][NextAlt]_vars

(***************************************************************************)
(* _safe_ratio on its own.  A quotient does not depend on the unit its two *)
(* arguments are counted in; here they are counted in units of             *)
(* 10^-(9 + TinyDigits), which puts denominators on both sides of 1e-9.    *)
(***************************************************************************)
TinyDigits == 2

\* 1e-9 in the unit of ratio_in
NearZeroTolerance ==
    10 ^ TinyDigits

RatioInputs ==
    {<<<<n * (NearZeroTolerance \div 2)>>, <<d * (NearZeroTolerance \div 4)>>>> :
        n \in (-3)..3, d \in (-8)..8}

InitRatio ==
    /\ ratio_in \in RatioInputs
    /\ ratio_out = Zero
    /\ alt_backtest = Pending
    /\ StoreEmpty
    /\ DashIdle
    /\ JwksEmpty
    /\ pc = "start"
    /\ daily_totals = <<>>
    /\ as_of_date = Date(4, 15)
    /\ assumptions = DefaultAssumptions
    /\ alt_totals = <<>>
    /\ alt_kind = "none"
    /\ projection = Pending
    /\ alt_projection = Pending
    /\ backtest = Pending
    /\ significance = Pending

\* recent_growth = _safe_ratio(mean of recent14, mean of prior14, 1.0) and
\* mom_growth = _safe_ratio(mtd_actual, sum of prev_month_mtd, 1.0)
CallSafeRatio ==
    /\ pc = "start"
    /\ ratio_out' = _safe_ratio(ratio_in[1], ratio_in[2], One)
    /\ pc' = "divided"
    /\ UNCHANGED <<daily_totals, as_of_date, assumptions, alt_totals, alt_kind,
                   projection, alt_projection, backtest, significance, ratio_in,
                   alt_backtest,
                   store_vars, dash_vars, jwks_vars>>

NextRatio ==
    CallSafeRatio

SpecRatio ==
    InitRatio /\ [][NextRatio]_vars

(***************************************************************************)
(* The backtester called twice by one caller, the second time on a frame   *)
(* that differs from the first only in rows after the cutoff of a replayed *)
(* month.                                                                  *)
(***************************************************************************)
\* as_of of the backtest of month m: the as_of_day-th day of m, or m's last
CutoffOf(m, as_of_day) ==
    LET days == MonthStartDays[m + 1] - MonthStartDays[m]
    IN  MonthStartDays[m] + (IF as_of_day < days THEN as_of_day ELSE days) - 1

LaterKinds ==
    {"raise_later", "negate_later", "drop_later"}

\* the frame with its rows dated after cut changed
PerturbedAfter(frame, kind, cut) ==
    CASE kind = "raise_later" ->
             [i \in 1..Len(frame) |->
                 IF frame[i].date > cut
                 THEN Row(frame[i].date, frame[i].total + AddedTotal)
                 ELSE frame[i]]
      [] kind = "negate_later" ->
             [i \in 1..Len(frame) |->
                 IF frame[i].date > cut
                 THEN Row(frame[i].date, 0 - frame[i].total)
                 ELSE frame[i]]
      [] kind = "drop_later" ->
             SelectSeq(frame, LAMBDA r : r.date <= cut)

\* the months a backtest replays
ReplayedMonths ==
    1..3

CutFrames ==
    {Series(Date(1, 1), Date(4, 30), gap[1], gap[2], p[1], p[2]) :
        gap \in {NoGap, <<Date(1, 10), Date(3, 10)>>, <<Date(3, 22), Date(3, 28)>>},
        p \in {<<"flat", 1>>, <<"flat", MaxValue>>, <<"weekday", MaxValue>>,
               <<"growing", MaxValue>>, <<"refunds", MaxValue>>}}

CutInputs ==
    {[frame |-> f, as_of |-> d, a |-> DefaultAssumptions] :
        f \in CutFrames, d \in AsOfDates}

InitCut ==
    InitWith(CutInputs)

\* the caller changes the rows after the cutoff of one replayed month
PerturbAfterCutoff ==
    /\ pc = "backtested"
    /\ \E kind \in LaterKinds, m \in ReplayedMonths :
          /\ alt_kind' = kind
          /\ alt_totals' = PerturbedAfter(daily_totals, kind,
                                          CutoffOf(m, DayOfMonth(as_of_date)))
    /\ pc' = "cut"
    /\ UNCHANGED <<daily_totals, as_of_date, assumptions, projection,
                   alt_projection, backtest, significance, ratio_in, ratio_out,
                   alt_backtest,
                   store_vars, dash_vars, jwks_vars>>

CallBacktestAlt ==
    /\ pc = "cut"
    /\ alt_backtest' = backtest_projection_mape_with_assumptions(
                           alt_totals, DayOfMonth(as_of_date),
                           MonthStartOf(as_of_date), assumptions)
    /\ alt_totals' = FrameAfterBacktest(alt_totals, MonthStartOf(as_of_date))
    /\ assumptions' = AssumptionsAfterCall(assumptions)
    /\ pc' = "replayed"
    /\ UNCHANGED <<daily_totals, as_of_date, alt_kind, projection, alt_projection,
                   backtest, significance, ratio_in, ratio_out,
                   store_vars, dash_vars, jwks_vars>>

NextCut ==
    \/ CallProjector
    \/ CallBacktest
    \/ PerturbAfterCutoff
    \/ CallBacktestAlt

SpecCut ==
    InitCut /\ [][NextCut]_vars

(***************************************************************************)
(* Text.  A Python str is the sequence of its characters, each a string of *)
(* length 1.                                                               *)
(***************************************************************************)
LowerCase ==
    <<"a", "b", "c", "d", "e", "f", "g", "h", "i", "j", "k", "l", "m",
      "n", "o", "p", "q", "r", "s", "t", "u", "v", "w", "x", "y", "z">>

UpperCase ==
    <<"A", "B", "C", "D", "E", "F", "G", "H", "I", "J", "K", "L", "M",
      "N", "O", "P", "Q", "R", "S", "T", "U", "V", "W", "X", "Y", "Z">>

DigitChars ==
    <<"0", "1", "2", "3", "4", "5", "6", "7", "8", "9">>

\* str.upper() and str.lower()
upper(text) ==
    [i \in 1..Len(text) |->
        IF \E k \in 1..26 : LowerCase[k] = text[i]
        THEN UpperCase[CHOOSE k \in 1..26 : LowerCase[k] = text[i]]
        ELSE text[i]]

lower(text) ==
    [i \in 1..Len(text) |->
        IF \E k \in 1..26 : UpperCase[k] = text[i]
        THEN LowerCase[CHOOSE k \in 1..26 : UpperCase[k] = text[i]]
        ELSE text[i]]

\* str.strip(): without the blanks at its two ends
strip(text) ==
    IF \A i \in 1..Len(text) : text[i] = " " THEN <<>>
    ELSE SubSeq(text,
                CHOOSE i \in 1..Len(text) :
                    text[i] # " " /\ \A j \in 1..(i - 1) : text[j] = " ",
                CHOOSE i \in 1..Len(text) :
                    text[i] # " " /\ \A j \in (i + 1)..Len(text) : text[j] = " ")

\* str(n) of an integer n >= 0
RECURSIVE DigitsOf(_)
DigitsOf(n) ==
    IF n < 10 THEN <<DigitChars[n + 1]>>
    ELSE DigitsOf(n \div 10) \o <<DigitChars[(n % 10) + 1]>>

\* "|".join(parts)
RECURSIVE Join(_)
Join(parts) ==
    IF Len(parts) = 0 THEN <<>>
    ELSE IF Len(parts) = 1 THEN parts[1]
    ELSE parts[1] \o <<"|">> \o Join(Tail(parts))

(***************************************************************************)
(* The payments store: save_transactions, save_shopify_line_daily and      *)
(* delete_import_payment on the tables transactions, imports,              *)
(* shopify_imports and shopify_line_daily.  An amount is a whole number of *)
(* units of 10^-AmountDigits.                                              *)
(***************************************************************************)
AmountDigits ==
    5

MaxImports ==
    2

MaxShopifyImports ==
    1

MaxClock ==
    1

\* normalize_channel: "Shopify" for shopify in any case and padding, else
\* "Amazon"
normalize_channel(channel) ==
    IF lower(strip(channel)) = <<"s", "h", "o", "p", "i", "f", "y">>
    THEN "Shopify" ELSE "Amazon"

\* _key_part: the stripped text, "" for nan
_key_part(value) ==
    IF lower(strip(value)) = <<"n", "a", "n">> THEN <<>> ELSE strip(value)

\* f"{float(x):.4f}" of the amount x
Format4(x) ==
    (IF x < 0 THEN <<"-">> ELSE <<>>)
        \o DigitsOf(RoundDiv(Abs(x), 10 ^ (AmountDigits - 4)) \div 10000)
        \o <<".">>
        \o SubSeq(DigitsOf(10000 + (RoundDiv(Abs(x), 10 ^ (AmountDigits - 4)) % 10000)),
                  2, 5)

\* hashlib.sha1(raw).hexdigest(): two raw strings have one digest exactly when
\* they are equal (no collision of SHA-1 is modelled), so the digest is
\* represented by the raw string
Sha1Hex(raw) ==
    raw

build_tx_key(date_time, tx_type, order_id, sku, total, quantity, description) ==
    Sha1Hex(Join(<<_key_part(date_time), upper(_key_part(tx_type)),
                   upper(_key_part(order_id)), upper(_key_part(sku)),
                   Format4(total), Format4(quantity),
                   upper(_key_part(description))>>))

\* to_save["tx_key"] = to_save.apply(build_tx_key ...)
WithTxKeys(df) ==
    [i \in 1..Len(df) |->
        [row |-> df[i],
         tx_key |-> build_tx_key(df[i].date_time, df[i].type, df[i].order_id,
                                 df[i].sku, df[i].total, df[i].quantity,
                                 df[i].description)]]

\* the frame as it is, with every row kept
drop_duplicates_KeepAll(to_save) ==
    to_save

\* to_save.drop_duplicates(subset=["tx_key"], keep="first")
drop_duplicates(to_save) ==
    SelectSeq([i \in 1..Len(to_save) |->
                  [row |-> to_save[i].row, tx_key |-> to_save[i].tx_key,
                   first |-> \A j \in 1..(i - 1) : to_save[j].tx_key # to_save[i].tx_key]],
              LAMBDA r : r.first)

\* SELECT tx_key FROM transactions WHERE tx_key IN (incoming)
ExistingKeys(incoming, table) ==
    {t.tx_key : t \in {u \in table : \E i \in 1..Len(incoming) : incoming[i].tx_key = u.tx_key}}

\* the rows INSERTed INTO transactions, with ids from first_id on
InsertedTransactions(to_save, first_id, imported_at, source_file, ch) ==
    {[id |-> first_id + i - 1,
      imported_at |-> imported_at,
      source_file |-> source_file,
      date_time |-> to_save[i].row.date_time,
      date |-> to_save[i].row.date,
      order_id |-> to_save[i].row.order_id,
      sku |-> to_save[i].row.sku,
      total |-> to_save[i].row.total,
      tx_key |-> to_save[i].tx_key,
      channel |-> ch] : i \in 1..Len(to_save)}

\* the tables and the return value after the two INSERTs and the commit;
\* before_batch is len(to_save) before the rows in existing are removed
SaveBatch(to_save, before_batch, source_file, ch, db, imported_at) ==
    [transactions |-> db.transactions \cup
                        InsertedTransactions(to_save, db.next_id.transactions,
                                             imported_at, source_file, ch),
     imports |-> db.imports \cup
                   {[id |-> db.next_id.imports,
                     imported_at |-> imported_at,
                     source_file |-> source_file,
                     row_count |-> Len(to_save),
                     channel |-> ch]},
     next_id |-> [db.next_id EXCEPT
                     !.transactions = @ + Len(to_save),
                     !.imports = @ + 1],
     inserted_by |-> db.inserted_by \o [i \in 1..Len(to_save) |-> db.next_id.imports],
     result |-> <<Len(to_save), before_batch - Len(to_save)>>]

\* save_transactions from the frame with its keys, without duplicates
SaveDistinct(to_save, source_file, ch, db, imported_at) ==
    SaveBatch(SelectSeq(to_save,
                        LAMBDA r : r.tx_key \notin ExistingKeys(to_save, db.transactions)),
              Len(to_save), source_file, ch, db, imported_at)

\* save_transactions on the tables db at time imported_at: the tables after
\* it and its return value (inserted, skipped)
save_transactions(df, source_file, channel, db, imported_at) ==
    IF Len(df) = 0
    THEN [transactions |-> db.transactions, imports |-> db.imports,
          next_id |-> db.next_id, inserted_by |-> db.inserted_by,
          result |-> <<0, 0>>]
    ELSE SaveDistinct(drop_duplicates(WithTxKeys(df)), source_file,
                      normalize_channel(channel), db, imported_at)

\* the rows of a payments frame: the columns the key is built from, and date
Tx(date_time, date, order_id, sku, total) ==
    [date_time |-> date_time, date |-> date, type |-> <<"O", "r", "d", "e", "r">>,
     order_id |-> order_id, sku |-> sku, total |-> total,
     quantity |-> 10 ^ AmountDigits, description |-> <<>>]

April30 ==
    <<"2", "0", "2", "4", "-", "0", "4", "-", "3", "0">>

April01 ==
    <<"2", "0", "2", "4", "-", "0", "4", "-", "0", "1">>

\* str of the date of a date/time that pd.to_datetime could not parse
NaTText ==
    <<"N", "a", "T">>

TxOrder1 ==
    Tx(<<"t", "1">>, April01, <<"a", "1">>, <<"S", "1">>, 10 ^ AmountDigits)

\* the row of TxOrder1 in other case and padding, 0.00004 higher
TxOrder1Again ==
    Tx(<<"t", "1", " ">>, April01, <<" ", "A", "1">>, <<"s", "1">>, 10 ^ AmountDigits + 4)

TxOrder2 ==
    Tx(<<"t", "2">>, April30, <<"B", "2">>, <<"S", "1">>, 25 * 10 ^ (AmountDigits - 1))

\* a row without date/time, order id and sku, of -0.00001
TxFooter ==
    Tx(<<"n", "a", "n">>, NaTText, <<"n", "a", "n">>, <<>>, -1)

\* two rows whose raw key strings are equal though their columns differ
TxPipeA ==
    Tx(<<"t", "3">>, April30, <<"A", "|", "B">>, <<>>, 0)

TxPipeB ==
    Tx(<<"t", "3">>, April30, <<"A">>, <<"B", "|">>, 0)

\* the frames parse_payments_upload gives save_transactions
PaymentFiles ==
    {<<>>,
     <<TxOrder1, TxOrder1Again, TxOrder2>>,
     <<TxOrder2, TxFooter>>,
     <<TxPipeA, TxPipeB, TxOrder1Again>>}

FileNames ==
    {"a.csv", "b.csv"}

Channels ==
    {<<"A", "m", "a", "z", "o", "n">>, <<"s", "h", "o", "p", "i", "f", "y", " ">>}

\* the frames parse_shopify_sales_by_day_upload gives save_shopify_line_daily:
\* the dates of their rows
ShopifyFiles ==
    {<<April01>>, <<April01, April30>>}

\* the forecasting engine at rest
ForecastIdle ==
    /\ daily_totals = <<>>
    /\ as_of_date = Date(4, 15)
    /\ assumptions = DefaultAssumptions
    /\ alt_totals = <<>>
    /\ alt_kind = "none"
    /\ pc = "start"
    /\ projection = Pending
    /\ alt_projection = Pending
    /\ backtest = Pending
    /\ alt_backtest = Pending
    /\ significance = Pending
    /\ ratio_in = <<Zero, Zero>>
    /\ ratio_out = Zero

InitStore ==
    /\ StoreEmpty
    /\ ForecastIdle
    /\ DashIdle
    /\ JwksEmpty

\* the tables and the call record after a call that left the tables as in
\* after
Saved(df, source_file, channel, after) ==
    /\ transactions' = after.transactions
    /\ imports' = after.imports
    /\ next_id' = after.next_id
    /\ inserted_by' = after.inserted_by
    /\ store_call' = [op |-> "save_transactions", df |-> df,
                      source_file |-> source_file, channel |-> channel,
                      result |-> after.result]

\* one call of save_transactions, from import_payments
SaveTransactions ==
    /\ next_id.imports <= MaxImports
    /\ \E df \in PaymentFiles, source_file \in FileNames, channel \in Channels :
          Saved(df, source_file, channel,
                save_transactions(
                    df, source_file, channel,
                    [transactions |-> transactions, imports |-> imports,
                     next_id |-> next_id, inserted_by |-> inserted_by],
                    clock))
    /\ UNCHANGED <<shopify_imports, shopify_line_daily, clock,
                   forecast_vars, dash_vars, jwks_vars>>

\* one call of save_shopify_line_daily, from import_shopify_line
SaveShopifyLineDaily ==
    /\ next_id.shopify_imports <= MaxShopifyImports
    /\ \E df \in ShopifyFiles, source_file \in FileNames :
          /\ shopify_imports' = shopify_imports \cup
                 {[id |-> next_id.shopify_imports, imported_at |-> clock,
                   source_file |-> source_file, row_count |-> Len(df)]}
          /\ shopify_line_daily' = shopify_line_daily \cup
                 {[id |-> next_id.shopify_line_daily + i - 1,
                   import_id |-> next_id.shopify_imports,
                   date |-> df[i]] : i \in 1..Len(df)}
          /\ next_id' = [next_id EXCEPT !.shopify_imports = @ + 1,
                                        !.shopify_line_daily = @ + Len(df)]
          /\ store_call' = [op |-> "save_shopify_line_daily", df |-> df,
                            source_file |-> source_file,
                            result |-> <<next_id.shopify_imports, Len(df)>>]
    /\ UNCHANGED <<transactions, imports, clock, inserted_by,
                   forecast_vars, dash_vars, jwks_vars>>

\* the Shopify branch of delete_import_payment
DeleteShopifyImport(import_id, channel) ==
    IF \A row \in shopify_imports : row.id # import_id
    THEN /\ store_call' = [op |-> "delete_import_payment", import_id |-> import_id,
                           channel |-> channel, ok |-> FALSE]
         /\ UNCHANGED <<shopify_imports, shopify_line_daily>>
    ELSE /\ shopify_line_daily' = {r \in shopify_line_daily : r.import_id # import_id}
         /\ shopify_imports' = {r \in shopify_imports : r.id # import_id}
         /\ store_call' =
               [op |-> "delete_import_payment", import_id |-> import_id,
                channel |-> channel, ok |-> TRUE,
                deleted_import_rows |->
                    Cardinality({r \in shopify_imports : r.id = import_id}),
                deleted_transaction_rows |->
                    Cardinality({r \in shopify_line_daily : r.import_id = import_id})]

\* its branch for every other channel; the row is the one SELECTed from imports
DeletePaymentImport(import_id, channel, ch) ==
    IF \A row \in imports : ~(row.id = import_id /\ row.channel = ch)
    THEN /\ store_call' = [op |-> "delete_import_payment", import_id |-> import_id,
                           channel |-> channel, ok |-> FALSE]
         /\ UNCHANGED <<transactions, imports>>
    ELSE LET row == CHOOSE r \in imports : r.id = import_id /\ r.channel = ch
             deleted_tx == {t \in transactions :
                               /\ t.imported_at = row.imported_at
                               /\ t.source_file = row.source_file
                               /\ t.channel = ch}
         IN  /\ transactions' = transactions \ deleted_tx
             /\ imports' = {r \in imports : ~(r.id = import_id /\ r.channel = ch)}
             /\ store_call' =
                   [op |-> "delete_import_payment", import_id |-> import_id,
                    channel |-> channel, ok |-> TRUE,
                    deleted_import_rows |-> 1,
                    deleted_transaction_rows |-> Cardinality(deleted_tx)]

\* DELETE /api/import/payments
delete_import_payment ==
    /\ \E import_id \in 1..MaxImports, channel \in Channels :
          IF normalize_channel(channel) = "Shopify"
          THEN /\ DeleteShopifyImport(import_id, channel)
               /\ UNCHANGED <<transactions, imports>>
          ELSE /\ DeletePaymentImport(import_id, channel, normalize_channel(channel))
               /\ UNCHANGED <<shopify_imports, shopify_line_daily>>
    /\ UNCHANGED <<next_id, clock, inserted_by, forecast_vars, dash_vars, jwks_vars>>

\* a second passes
Tick ==
    /\ clock < MaxClock
    /\ clock' = clock + 1
    /\ UNCHANGED <<transactions, imports, shopify_imports, shopify_line_daily,
                   next_id, store_call, inserted_by,
                   forecast_vars, dash_vars, jwks_vars>>

NextStore ==
    \/ SaveTransactions
    \/ SaveShopifyLineDaily
    \/ delete_import_payment
    \/ Tick

SpecStore ==
    InitStore /\ [][NextStore]_vars

(***************************************************************************)
(* The /dashboard handler of api_server.py and of backend/main.py, which   *)
(* differ in the auth entry of the response.  An optional str is None or   *)
(* Str(text).  What a sub-endpoint does when called (return or raise) is   *)
(* part of the request.                                                    *)
(***************************************************************************)
MaxFailures ==
    2

Str(text) ==
    [kind |-> "str", text |-> text]

\* bool(x) of an optional str
Truthy(x) ==
    x.kind = "str" /\ Len(x.text) > 0

IsDigit(c) ==
    \E k \in 1..10 : DigitChars[k] = c

DigitValue(c) ==
    (CHOOSE k \in 1..10 : DigitChars[k] = c) - 1

\* the year, month and day numbers of a text of the form dddd-dd-dd
YmdOf(text) ==
    [year |-> 1000 * DigitValue(text[1]) + 100 * DigitValue(text[2])
                + 10 * DigitValue(text[3]) + DigitValue(text[4]),
     month |-> 10 * DigitValue(text[6]) + DigitValue(text[7]),
     day |-> 10 * DigitValue(text[9]) + DigitValue(text[10])]

\* datetime.strptime(text, "%Y-%m-%d").date() for the dates of the first half
\* of 2024; ValueError for a text that is not such a date
strptime(text) ==
    IF /\ Len(text) = 10
       /\ text[5] = "-"
       /\ text[8] = "-"
       /\ \A i \in {1, 2, 3, 4, 6, 7, 9, 10} : IsDigit(text[i])
       /\ YmdOf(text).year = 2024
       /\ YmdOf(text).month \in 1..6
       /\ YmdOf(text).day \in
              1..(MonthStartDays[YmdOf(text).month + 2] - MonthStartDays[YmdOf(text).month + 1])
    THEN [kind |-> "Result", value |-> Date(YmdOf(text).month, YmdOf(text).day)]
    ELSE Raise("ValueError")

\* d.strftime("%Y-%m-%d") of a date of 2024
strftime(d) ==
    <<"2", "0", "2", "4", "-">>
        \o SubSeq(DigitsOf(100 + MonthIndex(d) - 1), 2, 3)
        \o <<"-">>
        \o SubSeq(DigitsOf(100 + DayOfMonth(d)), 2, 3)

\* the first day of the window of a preset that ends on max_dt
PresetStart(p, max_dt) ==
    CASE p = "YTD"     -> Date(1, 1)
      [] p = "Last 30" -> max_dt - 29
      [] p = "Last 90" -> max_dt - 89
      [] OTHER         -> MonthStartOf(max_dt)

\* _resolve_date_window from max_dt and min_dt on
ResolveFrom(preset, max_date, max_dt, min_dt) ==
    [kind |-> "Result",
     start_date |-> strftime(IF PresetStart(preset, max_dt) < min_dt THEN min_dt
                             ELSE PresetStart(preset, max_dt)),
     end_date |-> max_date]

\* _resolve_date_window(meta, preset, start_date, end_date) on the day today
_resolve_date_window(meta, preset, start_date, end_date, today) ==
    IF Truthy(start_date) /\ Truthy(end_date)
    THEN [kind |-> "Result", start_date |-> start_date.text, end_date |-> end_date.text]
    ELSE IF ~Truthy(meta.max_date)
    THEN [kind |-> "Result", start_date |-> strftime(MonthStartOf(today)),
          end_date |-> strftime(today)]
    ELSE IF strptime(meta.max_date.text).kind = "Raise" THEN Raise("ValueError")
    ELSE IF Truthy(meta.min_date) /\ strptime(meta.min_date.text).kind = "Raise"
    THEN Raise("ValueError")
    ELSE ResolveFrom(preset, meta.max_date.text, strptime(meta.max_date.text).value,
                     IF Truthy(meta.min_date) THEN strptime(meta.min_date.text).value
                     ELSE strptime(meta.max_date.text).value)

\* {"rows": []}
RowsFallback ==
    [rows |-> <<>>]

\* the _safe_call lines after meta, in the order of the handler: key, place
\* in the response and fallback.  The first WorkspaceSections of them are
\* the entries of workspace
WorkspaceSections ==
    5

Sections ==
    <<[key |-> "workspace.settings", path |-> <<"workspace", "settings">>,
       fallback |-> [auto_slack_on_import |-> TRUE]],
      [key |-> "workspace.import_history", path |-> <<"workspace", "import_history">>,
       fallback |-> RowsFallback],
      [key |-> "workspace.import_date_coverage",
       path |-> <<"workspace", "import_date_coverage">>, fallback |-> RowsFallback],
      [key |-> "workspace.ntb_monthly", path |-> <<"workspace", "ntb_monthly">>,
       fallback |-> [rows |-> <<>>, updated_from |-> None, updated_to |-> None,
                     imported_at |-> None]],
      [key |-> "workspace.goals", path |-> <<"workspace", "goals">>,
       fallback |-> RowsFallback],
      [key |-> "sales.summary", path |-> <<"sales", "summary">>, fallback |-> None],
      [key |-> "sales.daily", path |-> <<"sales", "daily">>, fallback |-> RowsFallback],
      [key |-> "sales.pivot", path |-> <<"sales", "pivot">>, fallback |-> RowsFallback],
      [key |-> "product.summary", path |-> <<"product", "summary">>,
       fallback |-> RowsFallback],
      [key |-> "product.trend", path |-> <<"product", "trend">>,
       fallback |-> RowsFallback],
      [key |-> "product.sku_summary", path |-> <<"product", "sku_summary">>,
       fallback |-> RowsFallback],
      [key |-> "product.sku_summary_all.iqbar",
       path |-> <<"product", "sku_summary_all", "iqbar">>, fallback |-> RowsFallback],
      [key |-> "product.sku_summary_all.iqmix",
       path |-> <<"product", "sku_summary_all", "iqmix">>, fallback |-> RowsFallback],
      [key |-> "product.sku_summary_all.iqjoe",
       path |-> <<"product", "sku_summary_all", "iqjoe">>, fallback |-> RowsFallback],
      [key |-> "product.top_movers", path |-> <<"product", "top_movers">>,
       fallback |-> [gainers |-> <<>>, decliners |-> <<>>]],
      [key |-> "business.monthly", path |-> <<"business", "monthly">>,
       fallback |-> [rows |-> <<>>, summary |-> <<>>]],
      [key |-> "business.pnl_summary", path |-> <<"business", "pnl_summary">>,
       fallback |-> None],
      [key |-> "forecast.mtd", path |-> <<"forecast">>,
       fallback |-> [projection |-> None]],
      [key |-> "inventory.latest", path |-> <<"inventory", "latest">>,
       fallback |-> [snapshot |-> None, rows |-> <<>>, by_line |-> <<>>]],
      [key |-> "inventory.history", path |-> <<"inventory", "history">>,
       fallback |-> RowsFallback],
      [key |-> "inventory.insights", path |-> <<"inventory", "insights">>,
       fallback |-> [kpis |-> <<>>, insights |-> <<>>]]>>

SectionKeys ==
    {Sections[i].key : i \in 1..Len(Sections)}

\* what the sub-endpoint of a section returns when it does not raise: a value
\* that names the section and the window it was called with
CallResult(key, resolved) ==
    [section |-> key, start_date |-> resolved.start_date,
     end_date |-> resolved.end_date]

\* str(exc) of the exception a sub-endpoint raises
ErrorText(key) ==
    "failed"

\* what fn(*args, **kwargs) does for a section of the request
Outcome(request, key, resolved) ==
    IF key \in request.raising THEN Raise(ErrorText(key))
    ELSE [kind |-> "Result", value |-> CallResult(key, resolved)]

\* a dict with the entry key: value added or replaced
SetItem(dict, key, value) ==
    (key :> value) @@ dict

EmptyDict ==
    [k \in {} |-> None]

\* _safe_call: the value it returns and the errors dict after it
_safe_call(key, errors, outcome, fallback) ==
    IF outcome.kind = "Raise"
    THEN [value |-> fallback, errors |-> SetItem(errors, key, outcome.error)]
    ELSE [value |-> outcome.value, errors |-> errors]

\* the state of the handler after one more _safe_call line: the errors dict,
\* the value of each section so far and the keys called so far
AfterCall(acc, key, called) ==
    [errors |-> called.errors,
     values |-> SetItem(acc.values, key, called.value),
     calls |-> Append(acc.calls, key)]

\* the _safe_call lines i..last of the handler, one after the other;
\* acc.calls holds "meta" and the keys of the lines 1..(i - 1)
RECURSIVE SafeCalls(_, _, _, _, _)
SafeCalls(i, last, request, resolved, acc) ==
    IF Len(acc.calls) > last THEN acc
    ELSE SafeCalls(i + 1, last, request, resolved,
                   AfterCall(acc, Sections[i].key,
                             _safe_call(Sections[i].key, acc.errors,
                                        Outcome(request, Sections[i].key, resolved),
                                        Sections[i].fallback)))

\* the workspace entry of the response
WorkspaceOf(v) ==
    [settings |-> v["workspace.settings"],
     import_history |-> v["workspace.import_history"],
     import_date_coverage |-> v["workspace.import_date_coverage"],
     ntb_monthly |-> v["workspace.ntb_monthly"],
     goals |-> v["workspace.goals"]]

\* the response with include_data false
WorkspaceResponse(request, meta, resolved, acc) ==
    [kind |-> "Result",
     calls |-> acc.calls,
     body |-> [meta |-> meta,
               channel |-> request.channel,
               preset |-> request.preset,
               resolved_dates |-> [start_date |-> resolved.start_date,
                                   end_date |-> resolved.end_date],
               workspace |-> WorkspaceOf(acc.values),
               errors |-> acc.errors]]

\* the response with include_data true
FullResponse(request, meta, resolved, acc) ==
    [kind |-> "Result",
     calls |-> acc.calls,
     body |-> [meta |-> meta,
               channel |-> request.channel,
               preset |-> request.preset,
               resolved_dates |-> [start_date |-> resolved.start_date,
                                   end_date |-> resolved.end_date],
               sales |-> [summary |-> acc.values["sales.summary"],
                          daily |-> acc.values["sales.daily"],
                          pivot |-> acc.values["sales.pivot"]],
               product |-> [summary |-> acc.values["product.summary"],
                            trend |-> acc.values["product.trend"],
                            sku_summary |-> acc.values["product.sku_summary"],
                            sku_summary_all |->
                                [iqbar |-> acc.values["product.sku_summary_all.iqbar"],
                                 iqmix |-> acc.values["product.sku_summary_all.iqmix"],
                                 iqjoe |-> acc.values["product.sku_summary_all.iqjoe"]],
                            top_movers |-> acc.values["product.top_movers"]],
               business |-> [monthly |-> acc.values["business.monthly"],
                             pnl_summary |-> acc.values["business.pnl_summary"]],
               forecast |-> acc.values["forecast.mtd"],
               inventory |-> [latest |-> acc.values["inventory.latest"],
                              history |-> acc.values["inventory.history"],
                              insights |-> acc.values["inventory.insights"]],
               workspace |-> WorkspaceOf(acc.values),
               errors |-> acc.errors]]

\* the handler from the workspace lines on
DashboardSections(request, meta, resolved, errors) ==
    IF resolved.kind = "Raise" THEN resolved
    ELSE IF ~request.include_data
    THEN WorkspaceResponse(request, meta, resolved,
                           SafeCalls(1, WorkspaceSections, request, resolved,
                                     [errors |-> errors, values |-> EmptyDict,
                                      calls |-> <<"meta">>]))
    ELSE FullResponse(request, meta, resolved,
                      SafeCalls(1, Len(Sections), request, resolved,
                                [errors |-> errors, values |-> EmptyDict,
                                 calls |-> <<"meta">>]))

\* meta or {}: a dict without min_date and max_date
NoDates ==
    [min_date |-> None, max_date |-> None]

\* the handler after meta = _safe_call("meta", errors, meta_date_range, ...)
DashboardFromMeta(request, called) ==
    DashboardSections(request, called.value,
                      _resolve_date_window(
                          IF DOMAIN called.value = {} THEN NoDates ELSE called.value,
                          request.preset, request.start_date, request.end_date,
                          request.today),
                      called.errors)

\* the handler of GET /dashboard
dashboard(request) ==
    DashboardFromMeta(request,
                      _safe_call("meta", EmptyDict, request.meta, EmptyDict))

\* the handler of backend/main.py: the same with the auth entry
WithAuth(response, auth) ==
    IF response.kind = "Raise" THEN response
    ELSE [response EXCEPT
             !.body = [k \in DOMAIN response.body \cup {"auth"} |->
                          IF k = "auth" THEN [user_id |-> auth.user_id, role |-> auth.role]
                          ELSE response.body[k]]]

\* what meta_date_range returns: on an empty table, on a table of dated rows,
\* on one that also holds a row whose date is the text NaT, and on one that
\* holds only such rows
MetaResults ==
    {[min_date |-> None, max_date |-> None, tx_count |-> 0],
     [min_date |-> Str(April01), max_date |-> Str(April30), tx_count |-> 2],
     [min_date |-> Str(April01), max_date |-> Str(NaTText), tx_count |-> 3],
     [min_date |-> Str(NaTText), max_date |-> Str(NaTText), tx_count |-> 1]}

Presets ==
    {"MTD", "YTD", "Last 30"}

\* start_date and end_date of the query
DateParameters ==
    {<<None, None>>, <<Str(April01), None>>, <<Str(April01), Str(April30)>>}

\* the sets of sections whose sub-endpoint raises: MaxFailures at most, or all
RECURSIVE SetsUpTo(_)
SetsUpTo(n) ==
    IF n = 0 THEN {{}}
    ELSE SetsUpTo(n - 1) \cup {s \cup {k} : s \in SetsUpTo(n - 1), k \in SectionKeys}

RaisingSets ==
    SetsUpTo(MaxFailures) \cup {SectionKeys}

DashboardRequests ==
    {[kind |-> "request", channel |-> "Amazon", preset |-> p,
      start_date |-> dates[1], end_date |-> dates[2], include_data |-> inc,
      today |-> Date(5, 15), meta |-> m, raising |-> s,
      auth |-> [user_id |-> "user_1", role |-> "viewer"]] :
        p \in Presets, dates \in DateParameters, inc \in BOOLEAN,
        m \in {Raise("OperationalError")}
                  \cup {[kind |-> "Result", value |-> v] : v \in MetaResults},
        s \in RaisingSets}

InitDash ==
    /\ dash_request \in DashboardRequests
    /\ dash_response = Pending
    /\ ForecastIdle
    /\ StoreEmpty
    /\ JwksEmpty

\* GET /dashboard of api_server.py
Dashboard ==
    /\ dash_response = Pending
    /\ dash_response' = dashboard(dash_request)
    /\ UNCHANGED <<dash_request, forecast_vars, store_vars, jwks_vars>>

\* GET /dashboard of backend/main.py, after verify_clerk_token returned auth
BackendDashboard ==
    /\ dash_response = Pending
    /\ dash_response' = WithAuth(dashboard(dash_request), dash_request.auth)
    /\ UNCHANGED <<dash_request, forecast_vars, store_vars, jwks_vars>>

NextDash ==
    \/ Dashboard
    \/ BackendDashboard

SpecDash ==
    InitDash /\ [][NextDash]_vars

(***************************************************************************)
(* The Clerk token check of backend/main.py: _get_jwks and its             *)
(* module-level cache, and verify_clerk_token, its one caller.  Time is    *)
(* in whole seconds, as int(time.time()).  A bearer token is malformed or  *)
(* carries a header (kid), claims, and whether jwt.decode accepts it.  What *)
(* the JWKS endpoint gives to a fetch is the environment's choice: no      *)
(* answer, a body that is not JSON, or a JSON value.                       *)
(***************************************************************************)
MaxNow ==
    7200

\* the lifetime _get_jwks gives to fetched keys, in seconds
JwksTtl ==
    3600

HTTPException(status_code, detail) ==
    [kind |-> "Raise", error |-> "HTTPException", status_code |-> status_code,
     detail |-> detail]

\* an item of a key list: a JSON object with its "kid" and "kty", or another
\* JSON value
Jwk(kid, kty) ==
    [kind |-> "dict", kid |-> kid, kty |-> kty]

NotAnObject ==
    [kind |-> "int", kid |-> "", kty |-> ""]

JsonList(items) ==
    [kind |-> "list", items |-> items]

\* isinstance(keys, list) and keys
IsNonEmptyList(keys) ==
    keys.kind = "list" /\ Len(keys.items) > 0

\* urlopen(url).read() and json.loads of it, then payload.get("keys", [])
FetchedKeys(response) ==
    CASE response.kind = "URLError" -> Raise("URLError")
      [] response.kind = "not_json" -> Raise("JSONDecodeError")
      [] response.kind = "array" -> Raise("AttributeError")
      [] response.kind = "object" ->
            [kind |-> "Result",
             value |-> IF response.has_keys THEN response.keys
                       ELSE JsonList(<<>>)]

\* the cache after a fetch that gave `keys`
Stored(keys, now_) ==
    [expires_at |-> now_ + JwksTtl, keys |-> keys.items]

Stored_BeforeCheck(cache, fetched, now_) ==
    IF fetched.kind = "Result" /\ fetched.value.kind = "list"
    THEN Stored(fetched.value, now_)
    ELSE cache

\* the cache after a fetch: replaced only by a non-empty list
AfterFetch(cache, fetched, now_) ==
    IF fetched.kind = "Result" /\ IsNonEmptyList(fetched.value)
    THEN Stored(fetched.value, now_)
    ELSE cache

\* _get_jwks(issuer) called at time now_ with the cache as it is; `response`
\* is what the endpoint gives if it is asked.  The value: whether a fetch
\* was made, what the call returned or raised, and the cache after it.
_get_jwks(cache, now_, response) ==
    IF Len(cache.keys) > 0 /\ now_ < cache.expires_at
    THEN [kind |-> "called", fetched |-> FALSE, cache |-> cache,
          outcome |-> [kind |-> "Result", value |-> cache.keys]]
    ELSE LET fetched == FetchedKeys(response)
         IN  [kind |-> "called", fetched |-> TRUE,
              cache |-> AfterFetch(cache, fetched, now_),
              outcome |->
                  IF fetched.kind = "Raise" THEN fetched
                  ELSE IF ~IsNonEmptyList(fetched.value)
                  THEN HTTPException(401, "Invalid JWKS response")
                  ELSE [kind |-> "Result", value |-> fetched.value.items]]

\* next((k for k in keys if k.get("kid") == kid), None)
RECURSIVE FirstWithKid(_, _)
FirstWithKid(keys, kid) ==
    IF keys = <<>> THEN None
    ELSE IF Head(keys).kind # "dict" THEN Raise("AttributeError")
    ELSE IF Head(keys).kid = kid THEN [kind |-> "Result", value |-> Head(keys)]
    ELSE FirstWithKid(Tail(keys), kid)

Admin ==
    <<"a", "d", "m", "i", "n">>

Viewer ==
    <<"v", "i", "e", "w", "e", "r">>

\* a or b of two optional strs
Or(a, b) ==
    IF Truthy(a) THEN a ELSE b

\* _extract_role(claims)
_extract_role(claims) ==
    LET from_metadata == IF claims.public_metadata.kind = "dict"
                         THEN Or(claims.public_metadata.role,
                                 claims.public_metadata.Role)
                         ELSE None
        role == IF Truthy(from_metadata) THEN from_metadata
                ELSE Or(claims.role, claims.org_role)
        norm == lower(strip(IF Truthy(role) THEN role.text ELSE Viewer))
    IN  IF norm = Admin THEN "admin" ELSE "viewer"

\* an exception that is not an HTTPException becomes a 401
Unauthorized(raised) ==
    IF raised.error = "HTTPException" THEN raised
    ELSE HTTPException(401, <<"Unauthorized", raised.error>>)

\* verify_clerk_token from the key lookup on: jwks is what _get_jwks gave
WithKeys(token, jwks) ==
    IF jwks.outcome.kind = "Raise" THEN Unauthorized(jwks.outcome)
    ELSE LET key_data == FirstWithKid(jwks.outcome.value, token.kid.text)
         IN  CASE key_data.kind = "Raise" -> Unauthorized(key_data)
               [] key_data.kind = "None" ->
                     HTTPException(401, "Signing key not found")
               [] key_data.kind = "Result" ->
                     IF key_data.value.kty # "RSA"
                     THEN Unauthorized(Raise("InvalidKeyError"))
                     ELSE IF ~token.decodes
                     THEN Unauthorized(Raise("InvalidTokenError"))
                     ELSE [kind |-> "Result",
                           value |-> [user_id |-> token.claims.sub,
                                      role |-> _extract_role(token.claims),
                                      claims |-> token.claims]]

NotCalled ==
    [kind |-> "not called"]

\* verify_clerk_token(credentials) with CLERK_ISSUER = issuer, at time now_.
\* The value: what _get_jwks did if it was called, what the dependency
\* returned or raised, and the cache after it.
verify_clerk_token(issuer, token, cache, now_, response) ==
    IF strip(issuer) = <<>>
    THEN [jwks |-> NotCalled, cache |-> cache,
          outcome |-> HTTPException(500, "CLERK_ISSUER is not configured")]
    ELSE IF token.kind = "malformed"
    THEN [jwks |-> NotCalled, cache |-> cache,
          outcome |-> Unauthorized(Raise("DecodeError"))]
    ELSE IF ~Truthy(token.kid)
    THEN [jwks |-> NotCalled, cache |-> cache,
          outcome |-> HTTPException(401, "Missing token kid")]
    ELSE LET jwks == _get_jwks(cache, now_, response)
         IN  [jwks |-> jwks, cache |-> jwks.cache,
              outcome |-> WithKeys(token, jwks)]

Claims(sub, metadata_role, role) ==
    [sub |-> sub,
     public_metadata |-> [kind |-> "dict", role |-> metadata_role, Role |-> None],
     role |-> role, org_role |-> None]

Jwt(kid, decodes, claims) ==
    [kind |-> "jwt", kid |-> kid, decodes |-> decodes, claims |-> claims]

ViewerClaims ==
    Claims("user_1", None, None)

AdminClaims ==
    Claims("user_2", Str(<<" ", "A", "d", "m", "i", "n">>), Str(Viewer))

Tokens ==
    {[kind |-> "malformed"],
     Jwt(None, TRUE, ViewerClaims),
     Jwt(Str(<<"k", "1">>), TRUE, ViewerClaims),
     Jwt(Str(<<"k", "1">>), FALSE, AdminClaims),
     Jwt(Str(<<"k", "2">>), TRUE, AdminClaims),
     Jwt(Str(<<"k", "3">>), TRUE, ViewerClaims)}

Issuers ==
    {<<>>, <<" ">>, <<"h", "t", "t", "p", "s", ":", "/", "/", "c", "/">>}

K1 ==
    Jwk(<<"k", "1">>, "RSA")

K2 ==
    Jwk(<<"k", "2">>, "RSA")

K3 ==
    Jwk(<<"k", "3">>, "oct")

KeyLists ==
    {<<K1>>, <<K2, K1>>, <<K3, NotAnObject, K2>>}

JsonObject(has_keys, keys) ==
    [kind |-> "object", has_keys |-> has_keys, keys |-> keys]

NoResponse ==
    [kind |-> "none"]

\* what the JWKS endpoint can give to a fetch
JwksResponses ==
    {[kind |-> "URLError"], [kind |-> "not_json"], [kind |-> "array"],
     JsonObject(FALSE, [kind |-> "null"]),
     JsonObject(TRUE, [kind |-> "null"]),
     JsonObject(TRUE, [kind |-> "str"]),
     JsonObject(TRUE, JsonList(<<>>))}
        \cup {JsonObject(TRUE, JsonList(keys)) : keys \in KeyLists}

TimeSteps ==
    {1800, 3600}

InitJwks ==
    /\ JwksEmpty
    /\ ForecastIdle
    /\ StoreEmpty
    /\ DashIdle

\* the state after a call that gave `verified`
Verified(issuer, token, response, verified) ==
    /\ _jwks_cache' = verified.cache
    /\ jwks_call' = [kind |-> "call", issuer |-> issuer, token |-> token,
                     at |-> now, before |-> _jwks_cache,
                     response |-> IF verified.jwks.kind = "called"
                                     /\ verified.jwks.fetched
                                  THEN response ELSE NoResponse,
                     jwks |-> verified.jwks,
                     outcome |-> verified.outcome]

\* a request arrives with a bearer token
VerifyClerkToken ==
    /\ \E issuer \in Issuers, token \in Tokens, response \in JwksResponses :
          Verified(issuer, token, response,
                   verify_clerk_token(issuer, token, _jwks_cache, now, response))
    /\ UNCHANGED <<now, forecast_vars, store_vars, dash_vars>>

\* time.time() moves on between requests
TimePasses ==
    /\ \E step \in TimeSteps :
          /\ now + step <= MaxNow
          /\ now' = now + step
    /\ UNCHANGED <<_jwks_cache, jwks_call, forecast_vars, store_vars, dash_vars>>

NextJwks ==
    \/ VerifyClerkToken
    \/ TimePasses

SpecJwks ==
    InitJwks /\ [][NextJwks]_vars

(***************************************************************************)
(* Properties.                                                             *)
(***************************************************************************)
Returned(r) ==
    r.kind = "Result"

\* C1 as stated: every returned growth_factor lies in
\* [growth_floor, growth_ceiling]
C1_GrowthFactorInBounds ==
    Returned(projection) =>
        /\ FLe(assumptions.growth_floor, projection.growth_factor)
        /\ FLe(projection.growth_factor, assumptions.growth_ceiling)

\* C1 as amended: every returned growth_factor is at least growth_floor, and
\* at most growth_ceiling whenever growth_floor <= growth_ceiling
C1_GrowthFactorClamped ==
    Returned(projection) =>
        /\ FLe(assumptions.growth_floor, projection.growth_factor)
        /\ FLe(assumptions.growth_floor, assumptions.growth_ceiling)
               => FLe(projection.growth_factor, assumptions.growth_ceiling)

\* a result whose growth factor the floor of a proper interval decided
C1_Witness ==
    /\ Returned(projection)
    /\ FLt(assumptions.growth_floor, assumptions.growth_ceiling)
    /\ projection.growth_factor = assumptions.growth_floor

\* C2 as stated: every result has ci_low <= projected_total <= ci_high
C2_BandBracketsProjection ==
    Returned(projection) =>
        /\ FLe(projection.ci_low, projection.projected_total)
        /\ FLe(projection.projected_total, projection.ci_high)

\* C2 as amended: every result has projected_total <= ci_high, and
\* ci_low <= projected_total whenever projected_total >= 0
C2_BandBracketsNonNegative ==
    Returned(projection) =>
        /\ FLe(projection.projected_total, projection.ci_high)
        /\ FLe(Zero, projection.projected_total)
               => FLe(projection.ci_low, projection.projected_total)

\* a result with a proper band around a positive projection
C2_Witness ==
    /\ Returned(projection)
    /\ FLt(Zero, projection.ci_low)
    /\ FLt(projection.ci_low, projection.projected_total)
    /\ FLt(projection.projected_total, projection.ci_high)

\* whether a frame holds one numeric row for every calendar day from its first
\* date to its last, each with the same total
FlatDaily(frame) ==
    /\ Len(frame) > 0
    /\ \A i \in 1..Len(frame) :
          /\ frame[i].parsable
          /\ frame[i].numeric
          /\ frame[i].total = frame[1].total
          /\ i > 1 => frame[i].date = frame[i - 1].date + 1

\* whether a flat daily frame covers the month before as_of's from its first
\* day on, and the month of as_of up to as_of
CoversHistoryAndMonthToDate(frame, as_of) ==
    /\ FlatDaily(frame)
    /\ frame[1].date <= MonthStartOf(MonthStartOf(as_of) - 1)
    /\ frame[Len(frame)].date >= as_of

\* C3 as stated: for a series flat at v over the history and the month to
\* date, an effective multiplier of 1 and growth_floor <= 1 <= growth_ceiling,
\* the projector returns growth_factor = 1.0 and projected_total = v * month_days
C3_FlatSeriesProjectsFlat ==
    (/\ pc # "start"
     /\ CoversHistoryAndMonthToDate(daily_totals, as_of_date)
     /\ _assumption_effective_multiplier(assumptions) = One
     /\ FLe(assumptions.growth_floor, One)
     /\ FLe(One, assumptions.growth_ceiling))
        => /\ Returned(projection)
           /\ projection.growth_factor = One
           /\ projection.projected_total
                  = Int2F(daily_totals[1].total * monthrange(as_of_date))

\* whether a frame is 30 consecutive days at exactly 100 a day
ThirtyDaysAtHundred(frame) ==
    /\ Len(frame) = 30
    /\ FlatDaily(frame)
    /\ frame[1].total = 100

\* whether the call is the scenario's: as_of the 15th of a 30-day month,
\* default assumptions
ScenarioCall ==
    /\ pc # "start"
    /\ ThirtyDaysAtHundred(daily_totals)
    /\ DayOfMonth(as_of_date) = 15
    /\ monthrange(as_of_date) = 30
    /\ assumptions = DefaultAssumptions

ScenarioResult ==
    /\ Returned(projection)
    /\ projection.mtd_actual = Int2F(1500)
    /\ projection.growth_factor = One
    /\ projection.projected_total = Int2F(3000)

\* C4 as stated: every series of 30 consecutive days at 100 a day, with as_of
\* the 15th of a 30-day month and default assumptions, gives mtd_actual 1500,
\* growth_factor 1.0 and projected_total 3000
C4_ScenarioAnyThirtyDays ==
    ScenarioCall => ScenarioResult

\* C4 as amended: the same, for the 30 days that begin before the first day
\* of the month and reach as_of
C4_ScenarioWithHistory ==
    (/\ ScenarioCall
     /\ daily_totals[1].date < MonthStartOf(as_of_date)
     /\ daily_totals[30].date >= as_of_date)
        => ScenarioResult

\* the scenario on a series whose only day of history is the last of March
C4_Witness ==
    /\ ScenarioCall
    /\ daily_totals[1].date = MonthStartOf(as_of_date) - 1
    /\ ScenarioResult

\* C5 as stated: the projector never raises a division fault
C5_NoDivisionFault ==
    ~(projection.kind = "Raise" /\ projection.error = "ZeroDivisionError")

\* C7: on an empty daily_totals each of the three functions returns None, and
\* none raises
C7_EmptyGivesNone ==
    daily_totals = <<>> =>
        /\ pc # "start" => projection.kind = "None"
        /\ pc \in {"backtested", "tested"} => backtest.kind = "None"
        /\ pc = "tested" => significance.kind = "None"

\* the three calls made on an empty frame
C7_Witness ==
    /\ daily_totals = <<>>
    /\ pc = "tested"
    /\ projection.kind = "None"
    /\ backtest.kind = "None"
    /\ significance.kind = "None"

\* whether no two rows with a parsable date carry the same date
OneRowPerDate(frame) ==
    \A i, j \in 1..Len(frame) :
        (i < j /\ frame[i].parsable /\ frame[j].parsable)
            => frame[i].date # frame[j].date

\* the indexes of the rows with a parsable date on or before as_of
UsableRows(frame, as_of) ==
    {i \in 1..Len(frame) : frame[i].parsable /\ frame[i].date <= as_of}

\* C8: with default assumptions and at most one row per date the projector
\* returns None exactly when no row with a parsable date is on or before
\* as_of, or none of them is in the month of as_of, or none is before the
\* month's first day; in every other case it returns a result
C8_NoneExactlyWithoutData ==
    (/\ pc # "start"
     /\ assumptions = DefaultAssumptions
     /\ OneRowPerDate(daily_totals))
        => LET usable      == UsableRows(daily_totals, as_of_date)
               month_start == MonthStartOf(as_of_date)
               no_current  == \A i \in usable : daily_totals[i].date < month_start
               no_history  == \A i \in usable : daily_totals[i].date >= month_start
           IN  IF usable = {} \/ no_current \/ no_history
               THEN projection.kind = "None"
               ELSE Returned(projection)

\* the projector returning None for a series with rows in the month to date
\* and none before the month's first day
C8_Witness ==
    /\ pc # "start"
    /\ assumptions = DefaultAssumptions
    /\ OneRowPerDate(daily_totals)
    /\ \E i \in UsableRows(daily_totals, as_of_date) :
          daily_totals[i].date = MonthStartOf(as_of_date)
    /\ \A i \in UsableRows(daily_totals, as_of_date) :
          daily_totals[i].date >= MonthStartOf(as_of_date)
    /\ projection.kind = "None"

\* C6 as stated: a growth ratio whose denominator is zero or nearer to zero
\* than 1e-9 evaluates to the fallback 1.0
C6_NearZeroDenominatorFallsBack ==
    (pc = "divided" /\ Abs(ratio_in[2][1]) < NearZeroTolerance)
        => ratio_out = One

\* C9 as stated: a row with a non-numeric total or an unparsable date is
\* dropped, and the projector's result is the result for the series without
\* the row
C9_BadRowsAreDropped ==
    (pc = "compared" /\ alt_kind \in TextRowKinds \cup NaTRowKinds)
        => alt_projection = projection

\* C10: the projector's result is the same after permuting the rows, after
\* adding a row dated after as_of, and after adding a row with an unparsable
\* date
C10_DependsOnUsableRowsOnly ==
    (pc = "compared" /\ alt_kind \in ReorderKinds \cup FutureRowKinds \cup NaTRowKinds)
        => alt_projection = projection

\* a result that a row added after as_of, inside the month, left unchanged
C10_Witness ==
    /\ pc = "compared"
    /\ alt_kind = "future_back"
    /\ alt_totals # daily_totals
    /\ alt_totals[Len(alt_totals)].date <= projection.month_end
    /\ Returned(projection)
    /\ alt_projection = projection

C13_PinnedGrowthIsOne ==
    (/\ pc # "start"
     /\ Returned(projection)
     /\ assumptions.growth_floor = One
     /\ assumptions.growth_ceiling = One)
        => projection.growth_factor = One

\* a result under floor = ceiling = 1 with an effective multiplier of 3, on a
\* month to date that is not flat
C13_Witness ==
    /\ pc # "start"
    /\ Returned(projection)
    /\ assumptions.growth_floor = One
    /\ assumptions.growth_ceiling = One
    /\ _assumption_effective_multiplier(assumptions) = Int2F(3)
    /\ projection.mtd_actual # Int2F(projection.elapsed_days)
    /\ projection.growth_factor = One

\* the numeric fields of a projection
NumericFields(r) ==
    {r.mtd_actual, r.projected_total, r.growth_factor, r.ci_low, r.ci_high}

FiniteTotals(frame) ==
    \A i \in 1..Len(frame) : frame[i].numeric

FiniteAssumptions(a) ==
    \A field \in DOMAIN a : IsFinite(a[field])

\* C14: on a series of finite totals and a mapping of finite assumptions, each
\* of mtd_actual, projected_total, growth_factor, ci_low and ci_high of a
\* returned projection is finite and not NaN, and ci_low >= 0
C14_FieldsFinite ==
    (/\ pc # "start"
     /\ Returned(projection)
     /\ FiniteTotals(daily_totals)
     /\ FiniteAssumptions(assumptions))
        => /\ \A x \in NumericFields(projection) : IsFinite(x)
           /\ FLe(Zero, projection.ci_low)

\* whether a frame has the same total v > 0 on every calendar day from the
\* first day of a month on
ConstantEveryDay(frame) ==
    /\ FlatDaily(frame)
    /\ frame[1].total > 0
    /\ frame[1].date = MonthStartOf(frame[1].date)

\* C15: a result of the backtester has mape >= 0; and on a series constant at
\* v > 0 on every calendar day, under the default assumptions, mape is 0 for
\* the requested as_of_day: each month's prediction equals its actual
C15_ConstantSeriesBacktestsExactly ==
    (pc \in {"backtested", "tested"} /\ Returned(backtest))
        => /\ FLe(Zero, backtest.mape)
           /\ (ConstantEveryDay(daily_totals) /\ assumptions = DefaultAssumptions)
                  => /\ backtest.mape = Zero
                     /\ \A i \in 1..Len(backtest.details) :
                            backtest.details[i].predicted = backtest.details[i].actual

\* the rows with a parsable date from lo to hi
RowsBetween(frame, lo, hi) ==
    SelectSeq(frame, LAMBDA r : r.parsable /\ lo <= r.date /\ r.date <= hi)

\* whether month m, strictly before current_month_start, has data, a projection
\* at its cutoff and an actual total above 0
Qualifies(frame, m, as_of_day, current_month_start, a) ==
    /\ MonthStartDays[m + 1] <= current_month_start
    /\ RowsBetween(frame, MonthStartDays[m], MonthStartDays[m + 1] - 1) # <<>>
    /\ Returned(compute_dynamic_month_projection(
                    RowsBetween(frame, MonthStartDays[1], CutoffOf(m, as_of_day)),
                    CutoffOf(m, as_of_day), a))
    /\ FLt(Zero, TotalSum(RowsBetween(frame, MonthStartDays[m], MonthStartDays[m + 1] - 1)))

QualifyingMonths(frame, as_of_day, current_month_start, a) ==
    SelectSeq([m \in 1..(Len(MonthStartDays) - 1) |-> m],
              LAMBDA m : Qualifies(frame, m, as_of_day, current_month_start, a))

\* whether the details are one row for each of the months, in their order, each
\* with ape = |predicted - actual| / actual
DetailsAre(details, months) ==
    /\ Len(details) = Len(months)
    /\ \A i \in 1..Len(details) :
          /\ details[i].month = months[i]
          /\ details[i].ape = FDiv(FAbs(FSub(details[i].predicted, details[i].actual)),
                                   details[i].actual)

\* C16: the backtester returns None when no month qualifies, and otherwise a
\* result whose details are exactly one row for each month before
\* current_month_start that has data, a projection at its cutoff and an
\* actual total above 0, with ape = |predicted - actual| / actual in each row,
\* count the number of rows and mape the mean of the ape values
C16_DetailsAreQualifyingMonths ==
    pc \in {"backtested", "tested"}
        => LET months == QualifyingMonths(daily_totals, DayOfMonth(as_of_date),
                                          MonthStartOf(as_of_date), assumptions)
           IN  IF months = <<>> THEN backtest = None
               ELSE /\ Returned(backtest)
                    /\ DetailsAre(backtest.details, months)
                    /\ backtest.count = Len(months)
                    /\ backtest.mape
                          = FDiv(FSum([i \in 1..Len(months) |-> backtest.details[i].ape]),
                                 Int2F(Len(months)))

\* the rows growth_significance takes as the current sample
CurrentSample(frame, as_of) ==
    RowsBetween(frame, MonthStartOf(as_of), as_of)

\* the rows it takes as the baseline sample: the 84 days before the month
BaselineSample(frame, as_of) ==
    RowsBetween(frame, MonthStartOf(as_of) - HistWindowDays, MonthStartOf(as_of) - 1)

\* a sample without spread: the standard deviation of its totals is 0
SameTotals(rows) ==
    \A i \in 1..Len(rows) : rows[i].total = rows[1].total

\* C17: growth_significance returns None, and does not raise, when the current
\* sample or the baseline sample (the 84 days before the month's first day)
\* has fewer than 2 points, and when the combined standard error is 0 (neither
\* sample has spread); in every other case it returns a result
C17_NoneExactlyWithoutEvidence ==
    pc = "tested"
        => LET current  == CurrentSample(daily_totals, as_of_date)
               baseline == BaselineSample(daily_totals, as_of_date)
           IN  IF \/ Len(current) < 2
                  \/ Len(baseline) < 2
                  \/ (SameTotals(current) /\ SameTotals(baseline))
               THEN significance = None
               ELSE Returned(significance)

\* None for two samples of 2 points or more, neither with spread, whose means
\* differ
C17_Witness ==
    /\ pc = "tested"
    /\ significance = None
    /\ Len(CurrentSample(daily_totals, as_of_date)) >= 2
    /\ Len(BaselineSample(daily_totals, as_of_date)) >= 2
    /\ SameTotals(CurrentSample(daily_totals, as_of_date))
    /\ SameTotals(BaselineSample(daily_totals, as_of_date))
    /\ CurrentSample(daily_totals, as_of_date)[1].total
          # BaselineSample(daily_totals, as_of_date)[1].total

\* whether 0 <= x <= 1
InUnitInterval(x) ==
    FLe(Zero, x) /\ FLe(x, One)

\* C18: in every result of growth_significance, confidence = 1 - p_value, and
\* p_value and confidence are both between 0 and 1
C18_ProbabilitiesInRange ==
    (pc = "tested" /\ Returned(significance))
        => /\ significance.confidence = FSub(One, significance.p_value)
           /\ InUnitInterval(significance.p_value)
           /\ InUnitInterval(significance.confidence)

\* the rows of the 14 days before the trailing 14 days
Prior14Rows(frame, as_of) ==
    RowsBetween(frame, as_of - 27, as_of - 14)

\* the rows of the previous month up to the day of the month of as_of
PrevMonthRows(frame, as_of) ==
    LET prev_month_start == MonthStartOf(MonthStartOf(as_of) - 1)
        prev_days        == MonthStartOf(as_of) - prev_month_start
        asof_day         == IF DayOfMonth(as_of) < prev_days THEN DayOfMonth(as_of)
                            ELSE prev_days
    IN  RowsBetween(frame, prev_month_start, prev_month_start + asof_day - 1)

RecentQualifies(frame, as_of) ==
    Len(Prior14Rows(frame, as_of)) >= 7

MomQualifies(frame, as_of) ==
    Len(PrevMonthRows(frame, as_of)) > 0

\* C19 as stated: when neither growth signal qualifies, the projector returns
\* growth_factor = 1.0
C19_NoSignalGivesOne ==
    (/\ pc # "start"
     /\ Returned(projection)
     /\ ~RecentQualifies(daily_totals, as_of_date)
     /\ ~MomQualifies(daily_totals, as_of_date))
        => projection.growth_factor = One

\* C19: when neither growth signal qualifies, the projector returns the
\* effective multiplier clamped to the floor and the ceiling, which is 1.0
\* for an effective multiplier of 1 and growth_floor <= 1 <= growth_ceiling
C19_NoSignalGivesMultiplier ==
    (/\ pc # "start"
     /\ Returned(projection)
     /\ ~RecentQualifies(daily_totals, as_of_date)
     /\ ~MomQualifies(daily_totals, as_of_date))
        => /\ projection.growth_factor
                 = PyMax(assumptions.growth_floor,
                         PyMin(assumptions.growth_ceiling,
                               _assumption_effective_multiplier(assumptions)))
           /\ (/\ _assumption_effective_multiplier(assumptions) = One
               /\ FLe(assumptions.growth_floor, One)
               /\ FLe(One, assumptions.growth_ceiling))
                  => projection.growth_factor = One

\* a result without a qualifying signal, on a series whose trailing 14 days
\* lie above the rows before them, under an effective multiplier of 1.5
C19_Witness ==
    /\ pc # "start"
    /\ Returned(projection)
    /\ ~RecentQualifies(daily_totals, as_of_date)
    /\ ~MomQualifies(daily_totals, as_of_date)
    /\ Len(Prior14Rows(daily_totals, as_of_date)) > 0
    /\ Prior14Rows(daily_totals, as_of_date)[1].total < daily_totals[Len(daily_totals)].total
    /\ _assumption_effective_multiplier(assumptions) = Dec(15, 10)
    /\ projection.growth_factor = Dec(15, 10)

\* the ratio of the recent signal: the mean of the trailing 14 days over the
\* mean of the 14 days before them
RecentRatio(frame, as_of) ==
    _safe_ratio(TotalMean(RowsBetween(frame, as_of - 13, as_of)),
                TotalMean(Prior14Rows(frame, as_of)), One)

\* the ratio of the month-over-month signal: the month to date over the
\* previous month to the same day
MomRatio(frame, as_of) ==
    _safe_ratio(TotalSum(CurrentSample(frame, as_of)),
                TotalSum(PrevMonthRows(frame, as_of)), One)

\* the blend of the claim: the ratio of the one qualifying signal, or the
\* weighted mean of the two
ExpectedBlend(frame, as_of, a) ==
    IF RecentQualifies(frame, as_of) /\ MomQualifies(frame, as_of)
    THEN FDiv(FAdd(FMul(RecentRatio(frame, as_of), a.recent_weight),
                   FMul(MomRatio(frame, as_of), a.mom_weight)),
              FAdd(a.recent_weight, a.mom_weight))
    ELSE IF RecentQualifies(frame, as_of) THEN RecentRatio(frame, as_of)
    ELSE IF MomQualifies(frame, as_of) THEN MomRatio(frame, as_of)
    ELSE One

\* the units of 1 / Prec by which the rounding of v * w / w and of the product
\* with the effective multiplier can move a growth factor
RoundingSlack == 2

\* whether two floats differ by no more than slack units of 1 / Prec
Near(x, y, slack) ==
    /\ ~IsNaN(x)
    /\ ~IsNaN(y)
    /\ x[1] - y[1] <= slack
    /\ y[1] - x[1] <= slack

\* C20: with positive weights the returned growth_factor is
\* max(growth_floor, min(growth_ceiling, blend * effective_multiplier)), where
\* the blend is the ratio of the one qualifying signal, whatever the weights,
\* or (recent * recent_weight + mom * mom_weight) / (recent_weight +
\* mom_weight) when both qualify; the recent signal qualifies with 7 rows or
\* more in the 14 days before the trailing 14, the month-over-month signal
\* with a row in the previous-month window.  Equality is up to the rounding
\* of v * w / w
C20_BlendOfQualifyingSignals ==
    (/\ pc # "start"
     /\ Returned(projection)
     /\ FLt(Zero, assumptions.recent_weight)
     /\ FLt(Zero, assumptions.mom_weight))
        => Near(projection.growth_factor,
                PyMax(assumptions.growth_floor,
                      PyMin(assumptions.growth_ceiling,
                            FMul(ExpectedBlend(daily_totals, as_of_date, assumptions),
                                 _assumption_effective_multiplier(assumptions)))),
                RoundingSlack)

\* a result under weights 2.0 and 0.5 where both signals qualify with
\* different ratios and the clamp leaves their blend as it is
C20_Witness ==
    /\ pc # "start"
    /\ Returned(projection)
    /\ assumptions.recent_weight = Int2F(2)
    /\ assumptions.mom_weight = Dec(5, 10)
    /\ RecentQualifies(daily_totals, as_of_date)
    /\ MomQualifies(daily_totals, as_of_date)
    /\ RecentRatio(daily_totals, as_of_date) # MomRatio(daily_totals, as_of_date)
    /\ FLt(assumptions.growth_floor, projection.growth_factor)
    /\ FLt(projection.growth_factor, assumptions.growth_ceiling)
    /\ Near(projection.growth_factor,
            FMul(ExpectedBlend(daily_totals, as_of_date, assumptions),
                 _assumption_effective_multiplier(assumptions)),
            RoundingSlack)

\* the rows dated in the 84 days before the month's first day
TrailingHistory(frame, as_of) ==
    RowsBetween(frame, MonthStartOf(as_of) - HistWindowDays, MonthStartOf(as_of) - 1)

\* every row dated before the month's first day
AllHistory(frame, as_of) ==
    RowsBetween(frame, MonthStartDays[1], MonthStartOf(as_of) - 1)

\* the window of the weekday baseline, as the claim has it
BaselineWindow(frame, as_of) ==
    IF Len(TrailingHistory(frame, as_of)) >= MinHistRows
    THEN TrailingHistory(frame, as_of)
    ELSE AllHistory(frame, as_of)

\* whether the predictions and the band of result r are those of the weekday
\* averages, the overall average and the residual deviation of window
BaselineIsOf(r, window, weekday_avg, overall_avg, as_of, a) ==
    /\ \A k \in 1..Len(r.chart_df) :
          r.chart_df[k].date > as_of
              => r.chart_df[k].forecast_daily
                    = Predict(r.chart_df[k].date, weekday_avg, overall_avg,
                              a.weekday_strength, r.growth_factor)
    /\ r.ci_high
          = CiHigh(r.projected_total,
                   ForecastStd(r.month_end - as_of,
                               ResidualStd(window, weekday_avg, overall_avg),
                               a.volatility_multiplier))

\* C21: the weekday averages, the overall average and the residual standard
\* deviation behind a projection are those of the rows dated in the 84 days
\* before the month's first day when these are 14 or more, and of all rows
\* dated before the month's first day otherwise; no row of the month enters
C21_BaselineFromHistoryOnly ==
    (pc # "start" /\ Returned(projection))
        => BaselineIsOf(projection,
                        BaselineWindow(daily_totals, as_of_date),
                        WeekdayAvg(BaselineWindow(daily_totals, as_of_date)),
                        TotalMean(BaselineWindow(daily_totals, as_of_date)),
                        as_of_date, assumptions)

\* a projection with days to predict whose baseline fell back to all of the
\* history, the 84 days holding fewer than 14 rows but not all of it, on
\* totals that vary
C21_Witness ==
    /\ pc # "start"
    /\ Returned(projection)
    /\ projection.month_end > as_of_date
    /\ Len(TrailingHistory(daily_totals, as_of_date)) < MinHistRows
    /\ Len(TrailingHistory(daily_totals, as_of_date)) > 0
    /\ Len(AllHistory(daily_totals, as_of_date))
          > Len(TrailingHistory(daily_totals, as_of_date))
    /\ ~SameTotals(AllHistory(daily_totals, as_of_date))
    /\ projection.ci_high # projection.projected_total

\* the rows of a window that fall on the weekday of day d
OnWeekdayOf(window, d) ==
    SelectSeq(window, LAMBDA r : weekday(r.date) = weekday(d))

\* the weekday average the claim gives day d: the mean of the window's rows of
\* its weekday, or overall_avg when the window has none
WeekdayAvgOf(window, overall_avg, d) ==
    IF OnWeekdayOf(window, d) = <<>> THEN overall_avg
    ELSE TotalMean(OnWeekdayOf(window, d))

\* max(0, baseline * growth_factor) for baseline = overall_avg +
\* weekday_strength * (weekday_avg - overall_avg)
DampedPrediction(weekday_avg, overall_avg, weekday_strength, growth_factor) ==
    PyMax(Zero,
          FMul(FAdd(overall_avg, FMul(weekday_strength, FSub(weekday_avg, overall_avg))),
               growth_factor))

\* whether each remaining day of result r is predicted from its damped
\* baseline, and from overall_avg alone where the claim says so
PredictionsAreDamped(r, window, overall_avg, as_of, a) ==
    \A k \in 1..Len(r.chart_df) :
        r.chart_df[k].date > as_of
            => /\ r.chart_df[k].forecast_daily
                     = DampedPrediction(
                           WeekdayAvgOf(window, overall_avg, r.chart_df[k].date),
                           overall_avg, a.weekday_strength, r.growth_factor)
               /\ (OnWeekdayOf(window, r.chart_df[k].date) = <<>>
                      \/ a.weekday_strength = Zero)
                     => r.chart_df[k].forecast_daily
                           = PyMax(Zero, FMul(overall_avg, r.growth_factor))

\* C22: each remaining day is predicted max(0, baseline * growth_factor) with
\* baseline = overall_avg + weekday_strength * (weekday_avg - overall_avg),
\* where a weekday without a row in the window has overall_avg for its
\* average; so the day of such a weekday, and every day when weekday_strength
\* is 0, is predicted max(0, overall_avg * growth_factor)
C22_DampedWeekdayBaseline ==
    (pc # "start" /\ Returned(projection))
        => PredictionsAreDamped(projection,
                                BaselineWindow(daily_totals, as_of_date),
                                TotalMean(BaselineWindow(daily_totals, as_of_date)),
                                as_of_date, assumptions)

\* a projection under weekday_strength = 0 with days to predict, on a window
\* whose weekday averages differ, every prediction being the same and above 0
C22_Witness ==
    /\ pc # "start"
    /\ Returned(projection)
    /\ assumptions.weekday_strength = Zero
    /\ projection.month_end > as_of_date + 7
    /\ \E d \in (as_of_date + 1)..(as_of_date + 7) :
          WeekdayAvgOf(BaselineWindow(daily_totals, as_of_date),
                       TotalMean(BaselineWindow(daily_totals, as_of_date)), d)
              # TotalMean(BaselineWindow(daily_totals, as_of_date))
    /\ \A k \in 1..Len(projection.chart_df) :
          projection.chart_df[k].date > as_of_date
              => /\ FLt(Zero, projection.chart_df[k].forecast_daily)
                 /\ projection.chart_df[k].forecast_daily
                       = projection.chart_df[Len(projection.chart_df)].forecast_daily

\* max(0, baseline * growth_factor) for each day after as_of up to the last
\* day of the month, from the window of the baseline
RemainingPredictions(window, overall_avg, as_of, weekday_strength, growth_factor) ==
    [k \in 1..(MonthStartOf(as_of) + monthrange(as_of) - 1 - as_of) |->
        DampedPrediction(WeekdayAvgOf(window, overall_avg, as_of + k), overall_avg,
                         weekday_strength, growth_factor)]

\* whether projected_total of result r is mtd_actual plus the predictions
TotalIsActualPlus(r, mtd_actual, predictions, as_of) ==
    /\ r.mtd_actual = mtd_actual
    /\ r.projected_total = FAdd(mtd_actual, FSum(predictions))
    /\ FLe(r.mtd_actual, r.projected_total)
    /\ as_of = r.month_end => r.projected_total = r.mtd_actual

\* C23: projected_total is mtd_actual, the sum of the month's rows up to
\* as_of, plus the sum over every day after as_of up to the last day of the
\* month of max(0, baseline * growth_factor); so projected_total >= mtd_actual,
\* with equality when as_of is the last day of the month
C23_TotalIsActualPlusRemaining ==
    (pc # "start" /\ Returned(projection))
        => TotalIsActualPlus(
               projection,
               TotalSum(CurrentSample(daily_totals, as_of_date)),
               RemainingPredictions(BaselineWindow(daily_totals, as_of_date),
                                    TotalMean(BaselineWindow(daily_totals, as_of_date)),
                                    as_of_date, assumptions.weekday_strength,
                                    projection.growth_factor),
               as_of_date)

\* a projection ten days before the end of the month, above a month to date
\* that is not 0
C23_Witness ==
    /\ pc # "start"
    /\ Returned(projection)
    /\ projection.month_end = as_of_date + 10
    /\ ~FEqZero(projection.mtd_actual)
    /\ FLt(projection.mtd_actual, projection.projected_total)

\* the total recorded for date d in the frame, 0 if it has no row for d
RecordedTotal(frame, d) ==
    IF \E i \in 1..Len(frame) : frame[i].parsable /\ frame[i].date = d
    THEN Int2F(frame[CHOOSE i \in 1..Len(frame) :
                         frame[i].parsable /\ frame[i].date = d].total)
    ELSE Zero

\* the column of a chart
ChartColumn(chart, column) ==
    [k \in 1..Len(chart) |-> chart[k][column]]

\* whether the chart of result r has one row for each date of the month of
\* as_of, the recorded totals up to as_of and the predictions after it
ChartIsOf(r, frame, predictions, as_of) ==
    /\ Len(r.chart_df) = r.month_days
    /\ r.month_days = monthrange(as_of)
    /\ \A k \in 1..Len(r.chart_df) :
          LET d == MonthStartOf(as_of) + k - 1
          IN  /\ r.chart_df[k].date = d
              /\ d <= as_of =>
                    /\ r.chart_df[k].forecast_daily = Zero
                    /\ r.chart_df[k].actual_daily = RecordedTotal(frame, d)
              /\ d > as_of =>
                    /\ r.chart_df[k].actual_daily = Zero
                    /\ r.chart_df[k].forecast_daily = predictions[d - as_of]
    /\ FSum(ChartColumn(r.chart_df, "actual_daily")) = r.mtd_actual
    /\ FSum(ChartColumn(r.chart_df, "forecast_daily"))
           = FSub(r.projected_total, r.mtd_actual)

\* C24: the chart of a returned projection has month_days rows, one for each
\* date of the month of as_of in ascending order; up to as_of the forecast
\* is 0 and the actual value is the total recorded for the date (0 with no
\* row), after as_of the actual value is 0 and the forecast is the prediction
\* of the day; the actual column sums to mtd_actual and the forecast column
\* to projected_total - mtd_actual
C24_ChartCoversMonth ==
    (pc # "start" /\ Returned(projection))
        => ChartIsOf(
               projection, daily_totals,
               RemainingPredictions(BaselineWindow(daily_totals, as_of_date),
                                    TotalMean(BaselineWindow(daily_totals, as_of_date)),
                                    as_of_date, assumptions.weekday_strength,
                                    projection.growth_factor),
               as_of_date)

\* a chart with a date before as_of that has no row, a date after as_of
\* that has a row with a total in the frame, and a forecast that is not 0
C24_Witness ==
    /\ pc # "start"
    /\ Returned(projection)
    /\ \E d \in MonthStartOf(as_of_date)..as_of_date :
          \A i \in 1..Len(daily_totals) : daily_totals[i].date # d
    /\ \E i \in 1..Len(daily_totals) :
          /\ daily_totals[i].date > as_of_date
          /\ daily_totals[i].date <= projection.month_end
          /\ daily_totals[i].total # 0
    /\ \E k \in 1..Len(projection.chart_df) :
          ~FEqZero(projection.chart_df[k].forecast_daily)

\* whether the two frames have the same rows dated up to cut
AgreeUpTo(frame, alt, cut) ==
    RowsBetween(frame, MonthStartDays[1], cut) = RowsBetween(alt, MonthStartDays[1], cut)

\* the rows of the details for month m
DetailsOf(bt, m) ==
    SelectSeq(bt.details, LAMBDA row : row.month = m)

\* whether each row of the details holds the projection at the cutoff of its
\* month from the rows up to the cutoff, and the sum of the rows of the month
ReplaysCutoffs(bt, frame, as_of_day, a) ==
    \A i \in 1..Len(bt.details) :
        LET m == bt.details[i].month
        IN  /\ bt.details[i].predicted
                  = compute_dynamic_month_projection(
                        RowsBetween(frame, MonthStartDays[1], CutoffOf(m, as_of_day)),
                        CutoffOf(m, as_of_day), a).projected_total
            /\ bt.details[i].actual
                  = TotalSum(RowsBetween(frame, MonthStartDays[m],
                                         MonthStartDays[m + 1] - 1))

\* C25: each replayed month m is projected as of day min(as_of_day,
\* days_in_month(m)) of m from the rows dated up to that day; the predicted
\* value of the row of m is the same in two backtests whose frames have the
\* same rows up to the cutoff of m, while actual is the sum of all the rows of
\* month m
C25_PredictedIgnoresLaterRows ==
    pc = "replayed" =>
        /\ Returned(backtest) =>
              ReplaysCutoffs(backtest, daily_totals, DayOfMonth(as_of_date), assumptions)
        /\ Returned(alt_backtest) =>
              ReplaysCutoffs(alt_backtest, alt_totals, DayOfMonth(as_of_date), assumptions)
        /\ (Returned(backtest) /\ Returned(alt_backtest)) =>
              \A m \in ReplayedMonths :
                  AgreeUpTo(daily_totals, alt_totals, CutoffOf(m, DayOfMonth(as_of_date)))
                      => \A i \in 1..Len(DetailsOf(backtest, m)),
                            j \in 1..Len(DetailsOf(alt_backtest, m)) :
                             DetailsOf(backtest, m)[i].predicted
                                 = DetailsOf(alt_backtest, m)[j].predicted

\* two backtests with a row for a month whose later rows differ: its actual
\* differs and its predicted value is the same
C25_Witness ==
    /\ pc = "replayed"
    /\ Returned(backtest)
    /\ Returned(alt_backtest)
    /\ \E m \in ReplayedMonths :
          /\ AgreeUpTo(daily_totals, alt_totals, CutoffOf(m, DayOfMonth(as_of_date)))
          /\ CutoffOf(m, DayOfMonth(as_of_date)) < MonthStartDays[m + 1] - 1
          /\ Len(DetailsOf(backtest, m)) = 1
          /\ Len(DetailsOf(alt_backtest, m)) = 1
          /\ DetailsOf(backtest, m)[1].actual # DetailsOf(alt_backtest, m)[1].actual
          /\ DetailsOf(backtest, m)[1].predicted = DetailsOf(alt_backtest, m)[1].predicted
          /\ ~FEqZero(DetailsOf(backtest, m)[1].predicted)

\* the rows of the trailing 14 days ending at as_of
Recent14Rows(frame, as_of) ==
    RowsBetween(frame, as_of - 13, as_of)

\* C26: whenever the recent signal is in the blend (7 rows or more in the 14
\* days before the trailing 14), the trailing 14 days ending at as_of hold a
\* row, so that the recent ratio is a quotient of two defined means and not
\* NaN
C26_RecentWindowHasData ==
    (/\ pc # "start"
     /\ Returned(projection)
     /\ RecentQualifies(daily_totals, as_of_date))
        => /\ Recent14Rows(daily_totals, as_of_date) # <<>>
           /\ ~IsNaN(RecentRatio(daily_totals, as_of_date))

\* the tx_keys of the rows of a payments frame
FileKeys(df) ==
    {build_tx_key(df[i].date_time, df[i].type, df[i].order_id, df[i].sku,
                  df[i].total, df[i].quantity, df[i].description) : i \in 1..Len(df)}

StoredKeys(table) ==
    {t.tx_key : t \in table}

NoSharedKey(table) ==
    \A t, u \in table : t.tx_key = u.tx_key => t = u

\* a step of one save_transactions call
SaveStep ==
    /\ store_call'.op = "save_transactions"
    /\ clock' = clock

\* C27: no two stored transactions share a tx_key, and every call of
\* save_transactions returns (inserted, skipped) with skipped the number of
\* distinct tx_keys of the file that were stored before the call and
\* inserted the number of its other distinct tx_keys, which are the keys the
\* call adds; a file whose keys are all stored inserts 0 rows
C27_DistinctKeysAndCounts ==
    [][/\ NoSharedKey(transactions')
       /\ SaveStep =>
             /\ store_call'.result[2]
                   = Cardinality(FileKeys(store_call'.df) \cap StoredKeys(transactions))
             /\ store_call'.result[1]
                   = Cardinality(FileKeys(store_call'.df) \ StoredKeys(transactions))
             /\ StoredKeys(transactions')
                   = StoredKeys(transactions) \cup FileKeys(store_call'.df)
             /\ Cardinality(transactions')
                   = Cardinality(transactions) + store_call'.result[1]
             /\ FileKeys(store_call'.df) \subseteq StoredKeys(transactions)
                   => store_call'.result[1] = 0]_vars

\* a call on a file with two rows of one key, one key that was stored and
\* one that was not: it inserted a row and skipped a row
C27_Witness ==
    /\ store_call.op = "save_transactions"
    /\ store_call.result = <<1, 1>>
    /\ Len(store_call.df) = 3
    /\ Cardinality(transactions) > 1
    /\ NoSharedKey(transactions)

\* a step of one delete_import_payment call
DeleteStep ==
    /\ store_call'.op = "delete_import_payment"
    /\ clock' = clock

\* the transactions that the save_transactions call of import import_id
\* inserted
InsertedBy(import_id) ==
    {t \in transactions : inserted_by[t.id] = import_id}

\* C28: delete_import_payment(import_id, channel) on an import of the channel
\* removes the row of the import and exactly the transactions that import
\* inserted, and changes nothing else; on an import_id that does not exist, or
\* is of another channel, it returns ok = False and changes no table
C28_DeleteRemovesOwnRows ==
    [][DeleteStep =>
          IF \E row \in imports :
                 /\ row.id = store_call'.import_id
                 /\ row.channel = normalize_channel(store_call'.channel)
          THEN /\ store_call'.ok
               /\ imports' = {row \in imports : row.id # store_call'.import_id}
               /\ transactions' = transactions \ InsertedBy(store_call'.import_id)
               /\ UNCHANGED <<shopify_imports, shopify_line_daily>>
          ELSE /\ ~store_call'.ok
               /\ UNCHANGED <<transactions, imports, shopify_imports,
                              shopify_line_daily>>]_vars

\* the value at a path of a nested dict
RECURSIVE Lookup(_, _)
Lookup(dict, path) ==
    IF Len(path) = 0 THEN dict ELSE Lookup(dict[Head(path)], Tail(path))

\* the sections the handler is to evaluate for a request, in order
SectionsOf(request) ==
    SubSeq(Sections, 1, IF request.include_data THEN Len(Sections) ELSE WorkspaceSections)

\* whether the response holds, for every section of the request, the result
\* of its call or, when the call raised, its fallback and an entry in
\* errors; errors has no other entry; and every section was called
IsolatesFailures(request, response) ==
    /\ response.calls
          = <<"meta">> \o [i \in 1..Len(SectionsOf(request)) |-> SectionsOf(request)[i].key]
    /\ DOMAIN response.body.errors
          = ({SectionsOf(request)[i].key : i \in 1..Len(SectionsOf(request))}
                \cap request.raising)
            \cup (IF request.meta.kind = "Raise" THEN {"meta"} ELSE {})
    /\ response.body.meta
          = (IF request.meta.kind = "Raise" THEN EmptyDict ELSE request.meta.value)
    /\ \A i \in 1..Len(SectionsOf(request)) :
          Lookup(response.body, SectionsOf(request)[i].path)
              = (IF SectionsOf(request)[i].key \in request.raising
                 THEN SectionsOf(request)[i].fallback
                 ELSE CallResult(SectionsOf(request)[i].key,
                                 [start_date |-> response.body.resolved_dates.start_date,
                                  end_date |-> response.body.resolved_dates.end_date]))

\* C29: the /dashboard handler returns a response for every request,
\* whichever of its sub-endpoint calls raise; errors has one entry for each
\* failed call, under the key of its section, each failed section holds its
\* fallback, each other section the result of its call, and the sections
\* after a failed one are still evaluated
C29_DashboardAlwaysResponds ==
    dash_response # Pending =>
        /\ Returned(dash_response)
        /\ IsolatesFailures(dash_request, dash_response)

\* every response the handler does return isolates the failures
DashboardIsolatesFailures ==
    Returned(dash_response) => IsolatesFailures(dash_request, dash_response)

\* the last request reached _get_jwks
JwksCalled ==
    jwks_call.kind = "call" /\ jwks_call.jwks.kind = "called"

Fresh(cache, t) ==
    Len(cache.keys) > 0 /\ t < cache.expires_at

\* the endpoint answered with a JSON object whose "keys" is a non-empty list
ValidResponse(response) ==
    response.kind = "object" /\ response.has_keys
        /\ response.keys.kind = "list" /\ response.keys.items # <<>>

\* what a _get_jwks call does with the cache on a hit and on a valid answer,
\* and that a fetch is made exactly when there is no hit
ServesOrFetches ==
    /\ Fresh(jwks_call.before, jwks_call.at) =>
          /\ ~jwks_call.jwks.fetched
          /\ jwks_call.jwks.outcome
                 = [kind |-> "Result", value |-> jwks_call.before.keys]
          /\ _jwks_cache = jwks_call.before
    /\ ~Fresh(jwks_call.before, jwks_call.at) => jwks_call.jwks.fetched
    /\ jwks_call.jwks.fetched /\ ValidResponse(jwks_call.response) =>
          /\ _jwks_cache = [expires_at |-> jwks_call.at + 3600,
                            keys |-> jwks_call.response.keys.items]
          /\ jwks_call.jwks.outcome
                 = [kind |-> "Result", value |-> jwks_call.response.keys.items]
    /\ jwks_call.jwks.outcome.kind = "Result" => _jwks_cache.keys # <<>>

Is401(raised) ==
    raised.kind = "Raise" /\ raised.error = "HTTPException"
        /\ raised.status_code = 401

\* C30 as stated: in any sequence of _get_jwks calls, a call made while the
\* cache holds a non-empty key list and now < expires_at returns the cached
\* keys without a fetch; any other call fetches; a valid answer (a non-empty
\* list) replaces the cached keys and sets expires_at = now + 3600; an
\* answer that is not valid makes _get_jwks raise a 401 error and leaves
\* keys and expires_at as they were; after a call that returned, the cache
\* holds a non-empty list.
C30_InvalidResponseRaises401 ==
    JwksCalled =>
        /\ ServesOrFetches
        /\ jwks_call.jwks.fetched /\ jwks_call.response.kind # "URLError"
               /\ ~ValidResponse(jwks_call.response) =>
              /\ Is401(jwks_call.jwks.outcome)
              /\ _jwks_cache = jwks_call.before

\* C30 amended: the same, except that an answer that is not valid (or no
\* answer) makes _get_jwks raise: a 401 error when the answer is a JSON
\* object, another exception when it is not JSON or not an object or when
\* the fetch fails; verify_clerk_token answers 401 in each of these cases,
\* and keys and expires_at are as they were.
C30_InvalidResponseRaises ==
    JwksCalled =>
        /\ ServesOrFetches
        /\ jwks_call.jwks.fetched /\ ~ValidResponse(jwks_call.response) =>
              /\ jwks_call.jwks.outcome.kind = "Raise"
              /\ jwks_call.response.kind = "object" =>
                     Is401(jwks_call.jwks.outcome)
              /\ Is401(jwks_call.outcome)
              /\ _jwks_cache = jwks_call.before

\* expired keys are in the cache, the endpoint answers with a JSON array, and
\* the cache is as it was
C30_Witness ==
    /\ JwksCalled
    /\ jwks_call.jwks.fetched
    /\ jwks_call.before.keys # <<>>
    /\ jwks_call.response.kind = "array"
    /\ _jwks_cache = jwks_call.before
    /\ Is401(jwks_call.outcome)

====
